---- MODULE Spec2Model ----
(***************************************************************************)
(* Entity merge and identity resolution of the bookshelf migration        *)
(* (scripts_migration/*.py).  Two source databases db1 and db2 hold the    *)
(* same tables; each merge script reads them, deduplicates one entity      *)
(* family, writes a canonical table, an id mapping, enriched link tables   *)
(* and a metadata record.                                                  *)
(*                                                                         *)
(* A cell of a data frame is a string or NaN.  A string is a sequence of   *)
(* one-character strings, so that strip / lower / concatenation are        *)
(* computed the way the code computes them.  NaN is the one-element        *)
(* sequence <<"NaN">>, which no string equals.  A table is a sequence of   *)
(* rows (records).                                                         *)
(***************************************************************************)
EXTENDS Integers, Sequences, FiniteSets, TLC

\* ---------------------------------------------------------------- bounds
\* Total number of rows in the source tables of both databases.
MaxRows == 3

\* Total number of rows in the entity tables of the spelling variants.
EdgeRows == 2

\* The rows the entity tables of a family hold when the sources are edited.
StaleRows == 2

\* The rows of the table of a source in a flat merge.
FlatRows == 2

\* --------------------------------------------------------------- strings
NaN == <<"NaN">>
EmptyStr == <<>>

isna(v) == v = NaN

WhiteSpace == {" ", "\t", "\n", "\r"}

UpperChars == <<"A", "B", "C", "D", "E", "F", "G", "H", "I", "J", "K", "L", "M",
                "N", "O", "P", "Q", "R", "S", "T", "U", "V", "W", "X", "Y", "Z">>
LowerChars == <<"a", "b", "c", "d", "e", "f", "g", "h", "i", "j", "k", "l", "m",
                "n", "o", "p", "q", "r", "s", "t", "u", "v", "w", "x", "y", "z">>

\* str.lower() on one character.
LowerChar(c) ==
    IF \E i \in 1..Len(UpperChars) : UpperChars[i] = c
    THEN LowerChars[CHOOSE i \in 1..Len(UpperChars) : UpperChars[i] = c]
    ELSE c

\* str.lower()
lower(s) == [i \in 1..Len(s) |-> LowerChar(s[i])]

RECURSIVE lstrip(_)
lstrip(s) == IF s # <<>> /\ Head(s) \in WhiteSpace THEN lstrip(Tail(s)) ELSE s

RECURSIVE rstrip(_)
rstrip(s) ==
    IF s # <<>> /\ s[Len(s)] \in WhiteSpace THEN rstrip(SubSeq(s, 1, Len(s) - 1)) ELSE s

\* str.strip()
strip(s) == rstrip(lstrip(s))

\* re.sub(r'\s+', ' ', s): every run of whitespace becomes one space.
RECURSIVE collapse_ws(_)
collapse_ws(s) ==
    IF s = <<>> THEN <<>>
    ELSE IF Head(s) \in WhiteSpace
         THEN <<" ">> \o collapse_ws(lstrip(s))
         ELSE <<Head(s)>> \o collapse_ws(Tail(s))

\* str(v) of a cell: NaN prints as "nan".
py_str(v) == IF isna(v) THEN <<"n", "a", "n">> ELSE v

\* series.fillna('').astype(str).str.strip()
clean_str(v) == strip(IF isna(v) THEN EmptyStr ELSE v)

\* ------------------------------------------------------------ data frames
\* df[mask]: the rows that satisfy Keep, in order.
SelectRows(rows, Keep(_)) ==
    LET RECURSIVE go(_)
        go(i) == IF i > Len(rows) THEN <<>>
                 ELSE (IF Keep(rows[i]) THEN <<rows[i]>> ELSE <<>>) \o go(i + 1)
    IN go(1)

\* (mask).sum()
CountRows(rows, P(_)) == Cardinality({i \in 1..Len(rows) : P(rows[i])})

\* Variant of drop_duplicates that drops a row only when the row just before
\* it has its key.
drop_duplicates_adjacent(rows) ==
    LET RECURSIVE go(_)
        go(i) == IF i > Len(rows) THEN <<>>
                 ELSE (IF i = 1 \/ rows[i - 1].key # rows[i].key THEN <<rows[i]>> ELSE <<>>)
                      \o go(i + 1)
    IN go(1)

\* df.drop_duplicates(subset='key'): the first row of every key, in order.
drop_duplicates(rows) ==
    LET first(i) == \A j \in 1..(i - 1) : rows[j].key # rows[i].key
        RECURSIVE go(_)
        go(i) == IF i > Len(rows) THEN <<>>
                 ELSE (IF first(i) THEN <<rows[i]>> ELSE <<>>) \o go(i + 1)
    IN go(1)

\* left.merge(right, left_on=fk, right_index=True, how='left'): every left row
\* once per right row whose index equals its key, or once with Missing(row)
\* when no right row matches.
merge_left(left, right, Match(_, _), Join(_, _), Missing(_)) ==
    LET hits(l) == SelectRows(right, LAMBDA r : Match(l, r))
        one(l) == IF hits(l) = <<>> THEN <<Missing(l)>>
                  ELSE [i \in 1..Len(hits(l)) |-> Join(l, hits(l)[i])]
        RECURSIVE go(_)
        go(i) == IF i > Len(left) THEN <<>> ELSE one(left[i]) \o go(i + 1)
    IN go(1)

\* "a|b" style concatenation of two strings with a separator character.
Join2(a, sep, b) == a \o <<sep>> \o b

\* ------------------------------------------------------------------ state
VARIABLES
    family,    \* the entity family whose tables the sources populate
    src,       \* src[db][table]: the source tables as read by pd.read_csv
    fs,        \* fs[file]: content of an output file (meaningful when written)
    written,   \* the output files that exist
    status,    \* status[script]: how the last run of script ended
    verdict,   \* verdict[validator]: what the last run of validator reported
    pipe,      \* the run of run_pipline.py: its arguments, results and exit status
    flat       \* the flat merge of one table: its two sources and the merged file

vars == <<family, src, fs, written, status, verdict, pipe, flat>>

Families == {"book_authors", "book_topic", "pauthors", "papers"}

Scripts == {"book_authors_merge", "book_topic_merge", "pauthors_merge", "papers_merge"}

Validators == {"check_book_authors_merge", "check_book_topic_merge", "check_papers_merge"}

\* The report of a validator that has not run.
NotRun == [ran |-> FALSE, exit |-> 0, missing |-> "none", passed |-> 0, failed |-> 0,
           warned |-> 0, failed_checks |-> {}]

\* No pipeline run is under way.
NoPipeline == [phase |-> "idle"]

\* No flat merge is under way.
NoFlatMerge == [phase |-> "idle"]

TableNames == {"Authors", "BookAuthors", "Topic", "BookTopic",
               "PAuthors", "PapersAuthors", "Papers"}

\* The random streams uuid.uuid4() can draw from in one run.
Seeds == {"s1", "s2"}

\* The i-th uuid.uuid4() of a run whose random stream is seed: values of one
\* stream are pairwise distinct, and so are values of different streams.
Uuid4(seed, i) == <<"uuid4", seed, ToString(i)>>

\* uuid.uuid5(namespace, name): a hash of namespace and name (SHA-1 taken as
\* collision free), so an injective function of the pair.
Uuid5(ns, name) == <<"uuid5", ns>> \o name

\* Rows of db in table t.
Table(db, t) == src[db][t]

\* Each main() is modelled statement block by statement block: a block is an
\* operator that takes the record e of the local variables assigned so far and
\* returns it extended with the variables the block assigns.

\* ------------------------------------------------- book_authors_merge.py
\* is_valid_id(val)
is_valid_id(val) ==
    IF isna(val) THEN FALSE
    ELSE strip(py_str(val)) # EmptyStr /\ lower(strip(py_str(val))) # <<"n", "a", "n">>

\* process_names(df) for one row, with the source_db column main() adds.
process_names(row, db) ==
    [AuthorID |-> row.AuthorID, FirstName |-> row.FirstName,
     MiddleName |-> row.MiddleName, LastName |-> row.LastName,
     source_db |-> db,
     final_first_name |->
         collapse_ws(strip(Join2(clean_str(row.FirstName), " ", clean_str(row.MiddleName)))),
     final_last_name |-> clean_str(row.LastName),
     key |-> Join2(lower(collapse_ws(strip(Join2(clean_str(row.FirstName), " ",
                                                  clean_str(row.MiddleName))))),
                   "|", lower(clean_str(row.LastName)))]

\* The key of a row whose name fields are all blank.
EmptyNameKey == <<"|">>

\* a = process_names(a); a = a[a['key'] != '|']
AcceptedAuthors(rows, db) ==
    SelectRows([i \in 1..Len(rows) |-> process_names(rows[i], db)],
               LAMBDA r : r.key # EmptyNameKey)

\* Lines 48-79: load both sources, drop the links without AuthorID, build the
\* name keys and drop the authors without a name.
ba_load ==
    [orig_ba1_count |-> Len(Table("db1", "BookAuthors")),
     orig_ba2_count |-> Len(Table("db2", "BookAuthors")),
     skipped_db1 |-> CountRows(Table("db1", "BookAuthors"), LAMBDA r : ~is_valid_id(r.AuthorID)),
     skipped_db2 |-> CountRows(Table("db2", "BookAuthors"), LAMBDA r : ~is_valid_id(r.AuthorID)),
     ba1 |-> SelectRows(Table("db1", "BookAuthors"), LAMBDA r : is_valid_id(r.AuthorID)),
     ba2 |-> SelectRows(Table("db2", "BookAuthors"), LAMBDA r : is_valid_id(r.AuthorID)),
     a1 |-> AcceptedAuthors(Table("db1", "Authors"), "db1"),
     a2 |-> AcceptedAuthors(Table("db2", "Authors"), "db2")]

\* unique_authors['book_author_id'] = [str(uuid.uuid4()) for _ in range(len(unique_authors))]
with_uuid4(u, seed) ==
    [i \in 1..Len(u) |->
        [book_author_id |-> Uuid4(seed, i),
         final_first_name |-> u[i].final_first_name,
         final_last_name |-> u[i].final_last_name,
         key |-> u[i].key]]

\* Variant of ba_dedup that concatenates db2 before db1.
ba_dedup_db2_first(e, seed) ==
    e @@ [all_authors |-> e.a2 \o e.a1,
          unique_authors |-> with_uuid4(drop_duplicates(e.a2 \o e.a1), seed)]

\* Lines 82-84: concatenate db1 before db2, keep the first row of every key.
ba_dedup(e, seed) ==
    e @@ [all_authors |-> e.a1 \o e.a2,
          unique_authors |-> with_uuid4(drop_duplicates(e.a1 \o e.a2), seed)]

\* Variant of ba_mapping that maps only the first row of every key.
ba_mapping_first_only(e) ==
    e @@ [mapping |->
            merge_left(drop_duplicates(e.all_authors), e.unique_authors,
                       LAMBDA a, u : a.key = u.key,
                       LAMBDA a, u : [source_db |-> a.source_db,
                                      old_author_id |-> a.AuthorID,
                                      old_first_name |-> a.FirstName,
                                      old_middle_name |-> a.MiddleName,
                                      old_last_name |-> a.LastName,
                                      new_book_author_id |-> u.book_author_id],
                       LAMBDA a : [source_db |-> a.source_db,
                                   old_author_id |-> a.AuthorID,
                                   old_first_name |-> a.FirstName,
                                   old_middle_name |-> a.MiddleName,
                                   old_last_name |-> a.LastName,
                                   new_book_author_id |-> NaN])]

\* Lines 89-100: mapping = all_authors[...].merge(key_to_uuid, on='key', how='left')
ba_mapping(e) ==
    e @@ [mapping |->
            merge_left(e.all_authors, e.unique_authors,
                       LAMBDA a, u : a.key = u.key,
                       LAMBDA a, u : [source_db |-> a.source_db,
                                      old_author_id |-> a.AuthorID,
                                      old_first_name |-> a.FirstName,
                                      old_middle_name |-> a.MiddleName,
                                      old_last_name |-> a.LastName,
                                      new_book_author_id |-> u.book_author_id],
                       LAMBDA a : [source_db |-> a.source_db,
                                   old_author_id |-> a.AuthorID,
                                   old_first_name |-> a.FirstName,
                                   old_middle_name |-> a.MiddleName,
                                   old_last_name |-> a.LastName,
                                   new_book_author_id |-> NaN])]

\* Variant of ba_join that joins the links with the mapping rows of both sources.
ba_join_any_source(ba, mapping, db) ==
    merge_left(ba, mapping,
               LAMBDA l, m : l.AuthorID = m.old_author_id,
               LAMBDA l, m : [BookAuthorID |-> l.BookAuthorID, BookID |-> l.BookID,
                              AuthorID |-> l.AuthorID,
                              old_first_name |-> m.old_first_name,
                              old_last_name |-> m.old_last_name,
                              new_book_author_id |-> m.new_book_author_id],
               LAMBDA l : [BookAuthorID |-> l.BookAuthorID, BookID |-> l.BookID,
                           AuthorID |-> l.AuthorID,
                           old_first_name |-> NaN, old_last_name |-> NaN,
                           new_book_author_id |-> NaN])

\* map_db = mapping[mapping['source_db'] == db].set_index('old_author_id')
\* ba.merge(map_db[...], left_on='AuthorID', right_index=True, how='left')
ba_join(ba, mapping, db) ==
    merge_left(ba, SelectRows(mapping, LAMBDA m : m.source_db = db),
               LAMBDA l, m : l.AuthorID = m.old_author_id,
               LAMBDA l, m : [BookAuthorID |-> l.BookAuthorID, BookID |-> l.BookID,
                              AuthorID |-> l.AuthorID,
                              old_first_name |-> m.old_first_name,
                              old_last_name |-> m.old_last_name,
                              new_book_author_id |-> m.new_book_author_id],
               LAMBDA l : [BookAuthorID |-> l.BookAuthorID, BookID |-> l.BookID,
                           AuthorID |-> l.AuthorID,
                           old_first_name |-> NaN, old_last_name |-> NaN,
                           new_book_author_id |-> NaN])

\* Lines 103-109: enrich the link table of each source with its own mapping rows.
ba_enrich(e) ==
    e @@ [ba1_joined |-> ba_join(e.ba1, e.mapping, "db1"),
          ba2_joined |-> ba_join(e.ba2, e.mapping, "db2")]

\* Lines 112-119: count the rows without new_book_author_id and drop them.
ba_orphans(e) ==
    e @@ [orphaned_db1 |-> CountRows(e.ba1_joined, LAMBDA r : isna(r.new_book_author_id)),
          orphaned_db2 |-> CountRows(e.ba2_joined, LAMBDA r : isna(r.new_book_author_id)),
          ba1_enriched |-> SelectRows(e.ba1_joined, LAMBDA r : ~isna(r.new_book_author_id)),
          ba2_enriched |-> SelectRows(e.ba2_joined, LAMBDA r : ~isna(r.new_book_author_id))]

\* Lines 124-149: the five files main() writes.
ba_files(e) ==
    ("BOOK_AUTHORS.csv" :>
        [i \in 1..Len(e.unique_authors) |->
            [book_author_id |-> e.unique_authors[i].book_author_id,
             first_name |-> e.unique_authors[i].final_first_name,
             last_name |-> e.unique_authors[i].final_last_name]])
    @@ ("author_id_mapping.csv" :> e.mapping)
    @@ ("book_authors_enriched_db1.csv" :> e.ba1_enriched)
    @@ ("book_authors_enriched_db2.csv" :> e.ba2_enriched)
    @@ ("book_authors_migration_metadata.csv" :>
        [source_db1_authors |-> Len(e.a1),
         source_db2_authors |-> Len(e.a2),
         source_db1_book_authors |-> e.orig_ba1_count,
         source_db2_book_authors |-> e.orig_ba2_count,
         skipped_incomplete_db1 |-> e.skipped_db1,
         skipped_incomplete_db2 |-> e.skipped_db2,
         orphaned_db1 |-> e.orphaned_db1,
         orphaned_db2 |-> e.orphaned_db2,
         enriched_db1_rows |-> Len(e.ba1_enriched),
         enriched_db2_rows |-> Len(e.ba2_enriched),
         unique_authors |-> Len(e.unique_authors),
         id_mappings |-> Len(e.mapping)])

\* book_authors_merge.main() with random stream seed: the files it writes.
book_authors_main(seed) ==
    ba_files(ba_orphans(ba_enrich(ba_mapping(ba_dedup(ba_load, seed)))))

\* ba1[valid_mask_1] (lines 67-68) of a link table without rows.  The mask is
\* then what Series.apply returns for an empty column, an empty column of
\* dtype object and not of dtype bool.  A pandas that takes such a key for a
\* list of column labels selects no column, and the merge on 'AuthorID'
\* (lines 104, 108) raises KeyError before any file is written; a pandas that
\* takes it for a boolean mask goes on.  bool_mask tells which one runs.
book_authors_outcome(seed, bool_mask) ==
    IF (Table("db1", "BookAuthors") = <<>> \/ Table("db2", "BookAuthors") = <<>>)
       /\ ~bool_mask
    THEN [status |-> "raised", files |-> <<>>]
    ELSE [status |-> "ok", files |-> book_authors_main(seed)]

\* ----------------------------------------------------- pauthors_merge.py
NS_PAUTHORS == "bookshelf.thesis.pauthors"

\* The characters of a Python string literal, one per element.
Chars_lastname == <<"l", "a", "s", "t", "n", "a", "m", "e", ":">>
Chars_firstname == <<":", "f", "i", "r", "s", "t", "n", "a", "m", "e", ":">>
Chars_fallback == <<"f", "a", "l", "l", "b", "a", "c", "k", ":">>

\* process_names(df) of pauthors_merge for one row, with its source_db column.
pauthors_process_names(row, db) ==
    [AuthorID |-> row.AuthorID, FirstName |-> row.FirstName,
     LastName |-> row.LastName, source_db |-> db,
     final_first_name |-> clean_str(row.FirstName),
     final_last_name |-> clean_str(row.LastName),
     key |-> Join2(lower(clean_str(row.FirstName)), "|", lower(clean_str(row.LastName)))]

\* The name uuid5 hashes: the names when there is one, else source and id.
pauthor_uuid_name(first, last, row) ==
    IF last # EmptyStr \/ first # EmptyStr
    THEN Chars_lastname \o last \o Chars_firstname \o first
    ELSE Chars_fallback \o <<row.source_db, ":">> \o py_str(row.AuthorID)

\* generate_pauthor_uuid(row)
generate_pauthor_uuid(row) ==
    Uuid5(NS_PAUTHORS,
          pauthor_uuid_name(strip(py_str(row.final_first_name)),
                            strip(py_str(row.final_last_name)), row))

\* pa = process_names(pa); pa = pa[pa["key"] != "|"]
AcceptedPAuthors(rows, db) ==
    SelectRows([i \in 1..Len(rows) |-> pauthors_process_names(rows[i], db)],
               LAMBDA r : r.key # EmptyNameKey)

\* Lines 87-121: load, drop the links without AuthorID and the authors without name.
pa_load ==
    [orig_links1_count |-> Len(Table("db1", "PapersAuthors")),
     orig_links2_count |-> Len(Table("db2", "PapersAuthors")),
     skipped_db1 |-> CountRows(Table("db1", "PapersAuthors"), LAMBDA r : ~is_valid_id(r.AuthorID)),
     skipped_db2 |-> CountRows(Table("db2", "PapersAuthors"), LAMBDA r : ~is_valid_id(r.AuthorID)),
     links1 |-> SelectRows(Table("db1", "PapersAuthors"), LAMBDA r : is_valid_id(r.AuthorID)),
     links2 |-> SelectRows(Table("db2", "PapersAuthors"), LAMBDA r : is_valid_id(r.AuthorID)),
     pa1 |-> AcceptedPAuthors(Table("db1", "PAuthors"), "db1"),
     pa2 |-> AcceptedPAuthors(Table("db2", "PAuthors"), "db2")]

\* unique_pauthors["author_id"] = unique_pauthors.apply(generate_pauthor_uuid, axis=1)
with_pauthor_uuid(u) ==
    [i \in 1..Len(u) |->
        [author_id |-> generate_pauthor_uuid(u[i]),
         final_first_name |-> u[i].final_first_name,
         final_last_name |-> u[i].final_last_name,
         key |-> u[i].key]]

\* Lines 124-126
pa_dedup(e) ==
    e @@ [all_pauthors |-> e.pa1 \o e.pa2,
          unique_pauthors |-> with_pauthor_uuid(drop_duplicates(e.pa1 \o e.pa2))]

\* Lines 133-148
pa_mapping(e) ==
    e @@ [mapping |->
            merge_left(e.all_pauthors, e.unique_pauthors,
                       LAMBDA a, u : a.key = u.key,
                       LAMBDA a, u : [source_db |-> a.source_db,
                                      old_author_id |-> a.AuthorID,
                                      old_first_name |-> a.FirstName,
                                      old_last_name |-> a.LastName,
                                      new_author_id |-> u.author_id],
                       LAMBDA a : [source_db |-> a.source_db,
                                   old_author_id |-> a.AuthorID,
                                   old_first_name |-> a.FirstName,
                                   old_last_name |-> a.LastName,
                                   new_author_id |-> NaN])]

\* links.merge(map_db[...], left_on="AuthorID", right_index=True, how="left")
pa_join(links, mapping, db) ==
    merge_left(links, SelectRows(mapping, LAMBDA m : m.source_db = db),
               LAMBDA l, m : l.AuthorID = m.old_author_id,
               LAMBDA l, m : [PapersAuthorsID |-> l.PapersAuthorsID,
                              PaperID |-> l.PaperID, AuthorID |-> l.AuthorID,
                              old_first_name |-> m.old_first_name,
                              old_last_name |-> m.old_last_name,
                              new_author_id |-> m.new_author_id],
               LAMBDA l : [PapersAuthorsID |-> l.PapersAuthorsID,
                           PaperID |-> l.PaperID, AuthorID |-> l.AuthorID,
                           old_first_name |-> NaN, old_last_name |-> NaN,
                           new_author_id |-> NaN])

\* Lines 151-165
pa_enrich(e) ==
    e @@ [links1_joined |-> pa_join(e.links1, e.mapping, "db1"),
          links2_joined |-> pa_join(e.links2, e.mapping, "db2")]

\* Lines 168-183
pa_orphans(e) ==
    e @@ [orphaned_db1 |-> CountRows(e.links1_joined, LAMBDA r : isna(r.new_author_id)),
          orphaned_db2 |-> CountRows(e.links2_joined, LAMBDA r : isna(r.new_author_id)),
          links1_enriched |-> SelectRows(e.links1_joined, LAMBDA r : ~isna(r.new_author_id)),
          links2_enriched |-> SelectRows(e.links2_joined, LAMBDA r : ~isna(r.new_author_id))]

\* Lines 188-215: the five files main() writes.
pa_files(e) ==
    ("PAUTHORS.csv" :>
        [i \in 1..Len(e.unique_pauthors) |->
            [author_id |-> e.unique_pauthors[i].author_id,
             first_name |-> e.unique_pauthors[i].final_first_name,
             last_name |-> e.unique_pauthors[i].final_last_name]])
    @@ ("pauthor_id_mapping.csv" :> e.mapping)
    @@ ("papers_authors_enriched_db1.csv" :> e.links1_enriched)
    @@ ("papers_authors_enriched_db2.csv" :> e.links2_enriched)
    @@ ("pauthors_migration_metadata.csv" :>
        [source_db1_pauthors |-> Len(e.pa1),
         source_db2_pauthors |-> Len(e.pa2),
         source_db1_papers_authors |-> e.orig_links1_count,
         source_db2_papers_authors |-> e.orig_links2_count,
         skipped_incomplete_db1 |-> e.skipped_db1,
         skipped_incomplete_db2 |-> e.skipped_db2,
         orphaned_db1 |-> e.orphaned_db1,
         orphaned_db2 |-> e.orphaned_db2,
         enriched_db1_rows |-> Len(e.links1_enriched),
         enriched_db2_rows |-> Len(e.links2_enriched),
         unique_pauthors |-> Len(e.unique_pauthors),
         id_mappings |-> Len(e.mapping)])

\* pauthors_merge.main(): the files it writes.
pauthors_main == pa_files(pa_orphans(pa_enrich(pa_mapping(pa_dedup(pa_load)))))

\* links1[valid_mask_1] (lines 109-110) of a link table without rows: as in
\* book_authors_merge, the merge on "AuthorID" (lines 152, 160) raises KeyError
\* unless pandas takes the empty mask for a boolean mask.
pauthors_outcome(bool_mask) ==
    IF (Table("db1", "PapersAuthors") = <<>> \/ Table("db2", "PapersAuthors") = <<>>)
       /\ ~bool_mask
    THEN [status |-> "raised", files |-> <<>>]
    ELSE [status |-> "ok", files |-> pauthors_main]

\* --------------------------------------------------- book_topic_merge.py
\* normalize_topic_name(name)
normalize_topic_name(name) == IF isna(name) THEN EmptyStr ELSE lower(strip(py_str(name)))

\* The last element of a non-empty set of indices.
MaxOf(S) == CHOOSE i \in S : \A j \in S : j <= i

\* create_topic_id_map(topic_df).get(key): dict(zip(...)) keeps the last row of
\* a TopicID; NaN when no row has the key (Series.map of a missing key).
topic_map_get(topics, key) ==
    IF \E i \in 1..Len(topics) : py_str(topics[i].TopicID) = key
    THEN topics[MaxOf({i \in 1..Len(topics) : py_str(topics[i].TopicID) = key})].Topic
    ELSE NaN

\* incomplete_mask of enrich_book_topics for one row.
topic_incomplete(row) ==
    \/ isna(row.TopicID)
    \/ strip(py_str(row.TopicID)) = EmptyStr
    \/ py_str(row.TopicID) = <<"n", "a", "n">>

\* df["TopicName"] = df["TopicID_str"].map(topic_map): the row stays, with NaN
\* where the dict has no entry.
with_topic_name(kept, topics) ==
    [i \in 1..Len(kept) |->
        [BookTopicID |-> kept[i].BookTopicID, TopicID |-> kept[i].TopicID,
         BookID |-> kept[i].BookID,
         TopicName |-> topic_map_get(topics, py_str(kept[i].TopicID))]]

\* enrich_book_topics(book_topic_df, topic_map, db_name)
enrich_book_topics(book_topics, topics) ==
    [enriched |-> with_topic_name(SelectRows(book_topics, LAMBDA r : ~topic_incomplete(r)),
                                  topics),
     incomplete_count |-> CountRows(book_topics, topic_incomplete)]

\* The rows of one source as the loops over iterrows() see them.
topic_rows(topics, db) ==
    [i \in 1..Len(topics) |->
        [source_db |-> db, TopicID |-> topics[i].TopicID, Topic |-> topics[i].Topic,
         key |-> normalize_topic_name(topics[i].Topic)]]

\* The loop body of merge_and_deduplicate_topics over db1 then db2: a row is
\* appended when its normalized name is non-empty and not seen before.
first_seen_topics(rows) ==
    LET RECURSIVE go(_)
        go(i) == IF i > Len(rows) THEN <<>>
                 ELSE (IF rows[i].key # EmptyStr
                          /\ \A j \in 1..(i - 1) : rows[j].key # rows[i].key
                       THEN <<[original_topic |-> rows[i].Topic,
                               normalized_topic |-> rows[i].key,
                               source |-> rows[i].source_db,
                               original_topic_id |-> rows[i].TopicID]>>
                       ELSE <<>>) \o go(i + 1)
    IN go(1)

\* merge_and_deduplicate_topics(topics_db1, topics_db2)
merge_and_deduplicate_topics(topics_db1, topics_db2) ==
    first_seen_topics(topic_rows(topics_db1, "db1") \o topic_rows(topics_db2, "db2"))

\* generate_new_book_topic_table(merged_topics)
generate_new_book_topic_table(merged_topics, seed) ==
    [i \in 1..Len(merged_topics) |->
        [book_topic_id |-> Uuid4(seed, i),
         topic_name |-> merged_topics[i].original_topic]]

\* normalized_to_uuid.get(normalized, "")
normalized_to_uuid_get(merged_topics, new_book_topic, normalized) ==
    IF \E i \in 1..Len(merged_topics) : merged_topics[i].normalized_topic = normalized
    THEN new_book_topic[CHOOSE i \in 1..Len(merged_topics) :
                            merged_topics[i].normalized_topic = normalized].book_topic_id
    ELSE EmptyStr

\* The mapping rows of the topics of one source.
topic_mapping_rows(rows, new_book_topic, merged_topics) ==
    [i \in 1..Len(rows) |->
        [source_db |-> rows[i].source_db,
         old_topic_id |-> rows[i].TopicID,
         old_topic_name |-> rows[i].Topic,
         new_book_topic_id |->
             normalized_to_uuid_get(merged_topics, new_book_topic, rows[i].key)]]

\* create_topic_id_mapping(topics_db1, topics_db2, new_book_topic, merged_topics)
create_topic_id_mapping(topics_db1, topics_db2, new_book_topic, merged_topics) ==
    topic_mapping_rows(topic_rows(topics_db1, "db1") \o topic_rows(topics_db2, "db2"),
                       new_book_topic, merged_topics)

\* Lines 231-253: load the tables and enrich the link tables.
bt_load ==
    [topics_db1 |-> Table("db1", "Topic"),
     topics_db2 |-> Table("db2", "Topic"),
     book_topics_db1 |-> Table("db1", "BookTopic"),
     book_topics_db2 |-> Table("db2", "BookTopic"),
     enrich1 |-> enrich_book_topics(Table("db1", "BookTopic"), Table("db1", "Topic")),
     enrich2 |-> enrich_book_topics(Table("db2", "BookTopic"), Table("db2", "Topic"))]

\* Lines 256-259: the enriched files, written before the topics are merged.
bt_enriched_files(e) ==
    ("book_topic_enriched_db1.csv" :> e.enrich1.enriched)
    @@ ("book_topic_enriched_db2.csv" :> e.enrich2.enriched)

\* Line 265
bt_merge(e) ==
    e @@ [merged_topics |-> merge_and_deduplicate_topics(e.topics_db1, e.topics_db2)]

\* Line 278
bt_new_table(e, seed) ==
    e @@ [new_book_topic |-> generate_new_book_topic_table(e.merged_topics, seed)]

\* Lines 287-289
bt_mapping(e) ==
    e @@ [id_mapping |-> create_topic_id_mapping(e.topics_db1, e.topics_db2,
                                                 e.new_book_topic, e.merged_topics)]

\* Lines 280-312: the files written after the merge.
bt_files(e) ==
    ("BOOK_TOPIC.csv" :> e.new_book_topic)
    @@ ("topic_id_mapping.csv" :> e.id_mapping)
    @@ ("book_topic_migration_metadata.csv" :>
        [source_db1_topics |-> Len(e.topics_db1),
         source_db2_topics |-> Len(e.topics_db2),
         source_db1_book_topics |-> Len(e.book_topics_db1),
         source_db2_book_topics |-> Len(e.book_topics_db2),
         skipped_incomplete_db1 |-> e.enrich1.incomplete_count,
         skipped_incomplete_db2 |-> e.enrich2.incomplete_count,
         enriched_db1_rows |-> Len(e.enrich1.enriched),
         enriched_db2_rows |-> Len(e.enrich2.enriched),
         unique_topics |-> Len(e.new_book_topic),
         id_mappings |-> Len(e.id_mapping)])

\* What one run of book_topic_merge.main() does, given the tables it loaded:
\*   both Topic tables empty: it returns and writes nothing (lines 234-236);
\*   no topic with a name: it has written the enriched files when
\*     merged_topics["source"] raises KeyError, pd.DataFrame([]) having no
\*     columns (lines 156, 271);
\*   otherwise it writes all five files.
bt_outcome(e, merged, seed) ==
    IF e.topics_db1 = <<>> /\ e.topics_db2 = <<>>
    THEN [status |-> "returned", files |-> <<>>]
    ELSE IF merged.merged_topics = <<>>
    THEN [status |-> "raised", files |-> bt_enriched_files(e)]
    ELSE [status |-> "ok",
          files |-> bt_enriched_files(e) @@ bt_files(bt_mapping(bt_new_table(merged, seed)))]

\* book_topic_merge.main() with random stream seed.
book_topic_main(seed) == bt_outcome(bt_load, bt_merge(bt_load), seed)

\* ------------------------------------------------------- papers_merge.py
NS_PAPERS == "bookshelf.thesis.papers"

Chars_title == <<"t", "i", "t", "l", "e", ":">>
Chars_year == <<":", "y", "e", "a", "r", ":">>

\* Characters in code point order, for the comparison of Python strings.
CodeOrder == <<"\t", "\n", "\r", " ", ",", "-", "0", "1", "2", "3", "4", "5", "6", "7",
               "8", "9", ":">> \o UpperChars \o LowerChars \o <<"{", "|", "}">>

ord(c) == CHOOSE i \in 1..Len(CodeOrder) : CodeOrder[i] = c

\* a < b for Python strings.
RECURSIVE str_less(_, _)
str_less(a, b) ==
    IF b = <<>> THEN FALSE
    ELSE IF a = <<>> THEN TRUE
    ELSE IF Head(a) = Head(b) THEN str_less(Tail(a), Tail(b))
    ELSE ord(Head(a)) < ord(Head(b))

\* The default NA strings of pd.read_csv over the letters.
NAStrings == { <<"n", "a", "n">>, <<"N", "a", "N">>, <<"N", "A">>, <<"n", "u", "l", "l">>,
               <<"N", "U", "L", "L">>, <<"N", "o", "n", "e">> }

\* The cell pd.read_csv(path, dtype=str) yields for a cell written by to_csv:
\* an empty cell and the default NA strings are read as NaN.
read_csv_cell(v) == IF v = EmptyStr \/ v \in NAStrings THEN NaN ELSE v

\* Variant of read_pa_enriched that takes the source AuthorID for the author.
read_pa_enriched_source_ids(file) ==
    [i \in 1..Len(file) |-> [PaperID |-> read_csv_cell(file[i].PaperID),
                             new_author_id |-> read_csv_cell(file[i].AuthorID)]]

\* pd.read_csv(enriched_path, dtype=str): the columns main() uses.
read_pa_enriched(file) ==
    [i \in 1..Len(file) |-> [PaperID |-> read_csv_cell(file[i].PaperID),
                             new_author_id |-> read_csv_cell(file[i].new_author_id)]]

\* The rows of build_author_lookup with the two strings its loop derives.
lookup_rows(enriched) ==
    [i \in 1..Len(enriched) |->
        [paper_id |-> strip(py_str(enriched[i].PaperID)),
         author_id |-> strip(py_str(enriched[i].new_author_id))]]

\* if paper_id and author_id and author_id != "nan"
lookup_ok(r) ==
    r.paper_id # EmptyStr /\ r.author_id # EmptyStr /\ r.author_id # <<"n", "a", "n">>

\* lookup.get(paper_id, []) of the rows of build_author_lookup: the author
\* ids of the paper, each once, in row order.
lookup_get(rows, paper_id) ==
    LET RECURSIVE go(_)
        go(i) == IF i > Len(rows) THEN <<>>
                 ELSE (IF /\ lookup_ok(rows[i]) /\ rows[i].paper_id = paper_id
                          /\ \A j \in 1..(i - 1) :
                                ~(/\ lookup_ok(rows[j]) /\ rows[j].paper_id = paper_id
                                  /\ rows[j].author_id = rows[i].author_id)
                       THEN <<rows[i].author_id>> ELSE <<>>) \o go(i + 1)
    IN go(1)

\* p1["Title"].isna() | (p1["Title"].str.strip() == "")
empty_title(row) == isna(row.Title) \/ strip(row.Title) = EmptyStr

\* normalize_title(series) for one cell.
normalize_title(v) == lower(strip(IF isna(v) THEN EmptyStr ELSE py_str(v)))

\* p["Year"].fillna("").astype(str).str.strip() for one cell.
norm_year(v) == strip(IF isna(v) THEN EmptyStr ELSE py_str(v))

\* Lines 158-190 for the kept rows of one source: source_db, authors_ids,
\* norm_title, norm_year and dedup_key.
paper_columns(kept, db, lookup) ==
    [i \in 1..Len(kept) |->
        [PaperID |-> kept[i].PaperID, Title |-> kept[i].Title,
         Year |-> kept[i].Year, Abstract |-> kept[i].Abstract,
         SoftCopy |-> kept[i].SoftCopy, source_db |-> db,
         authors_ids |-> lookup_get(lookup, strip(py_str(kept[i].PaperID))),
         key |-> Join2(normalize_title(kept[i].Title), "|", norm_year(kept[i].Year))]]

\* The value itself is one of the four spellings.
parse_bool_exact(val) ==
    val \in {<<"1">>, <<"t", "r", "u", "e">>, <<"y", "e", "s">>, <<"-", "1">>}

\* parse_bool(val)
parse_bool(val) ==
    IF isna(val) THEN FALSE
    ELSE lower(strip(py_str(val))) \in {<<"1">>, <<"t", "r", "u", "e">>,
                                         <<"y", "e", "s">>, <<"-", "1">>}

\* The name uuid5 hashes for a paper with this title and year.
paper_uuid_name(title, year, row) ==
    IF title # EmptyStr
    THEN Chars_title \o lower(title) \o Chars_year \o year
    ELSE Chars_fallback \o <<row.source_db, ":">> \o py_str(row.PaperID)

\* generate_paper_uuid(row): NaN is truthy, so a missing Year prints as "nan".
generate_paper_uuid(row) ==
    Uuid5(NS_PAPERS, paper_uuid_name(strip(py_str(row.Title)), strip(py_str(row.Year)), row))

\* The elements of a sequence.
Range(seq) == {seq[i] : i \in 1..Len(seq)}

\* All enumerations of a finite set, each element once.
Orderings(S) == {f \in [1..Cardinality(S) -> S] : \A i, j \in DOMAIN f : f[i] = f[j] => i = j}

\* The author ids found on the rows.
AuthorIdsOf(rows) == UNION {Range(rows[i].authors_ids) : i \in 1..Len(rows)}

\* The first row of the group with its own author ids only.
merge_authors_winner_only(group, setorder) == group[1]

\* merge_authors_for_duplicates(group): the row itself for a group of one;
\* else the first row with list(set(...)) of the author ids of all rows,
\* in the iteration order of that Python set (setorder).
merge_authors_for_duplicates(group, setorder) ==
    IF Len(group) = 1 THEN group[1]
    ELSE [group[1] EXCEPT !.authors_ids =
             SelectRows(setorder, LAMBDA a : a \in AuthorIdsOf(group))]

\* The keys in ascending order: groupby sorts its group keys.
RECURSIVE sorted_keys(_)
sorted_keys(keys) ==
    IF keys = {} THEN <<>>
    ELSE <<CHOOSE k \in keys : \A o \in keys \ {k} : str_less(k, o)>>
         \o sorted_keys(keys \ {CHOOSE k \in keys : \A o \in keys \ {k} : str_less(k, o)})

\* all_papers.groupby("dedup_key", as_index=False).apply(merge_authors_for_duplicates)
group_papers(all_papers, keys, setorder) ==
    [i \in 1..Len(keys) |->
        merge_authors_for_duplicates(SelectRows(all_papers, LAMBDA r : r.key = keys[i]),
                                     setorder)]

\* unique_papers["paper_id"] = unique_papers.apply(generate_paper_uuid, axis=1)
with_paper_uuid(u) == [i \in 1..Len(u) |-> u[i] @@ [paper_id |-> generate_paper_uuid(u[i])]]

\* "{" + ",".join(x) + "}" if x else "{}", every id one element of the result.
render_authors_ids(x) ==
    <<"{">> \o [i \in 1..(IF x = <<>> THEN 0 ELSE 2 * Len(x) - 1) |->
                   IF i % 2 = 1 THEN x[(i + 1) \div 2] ELSE ","] \o <<"}">>

\* Lines 115-156: load, drop the papers without PaperID, then those without title.
pp_load ==
    [orig_p1_count |-> Len(Table("db1", "Papers")),
     orig_p2_count |-> Len(Table("db2", "Papers")),
     pa_enriched_db1 |-> read_pa_enriched(fs["papers_authors_enriched_db1.csv"]),
     pa_enriched_db2 |-> read_pa_enriched(fs["papers_authors_enriched_db2.csv"]),
     skipped_db1 |-> CountRows(Table("db1", "Papers"), LAMBDA r : ~is_valid_id(r.PaperID)),
     skipped_db2 |-> CountRows(Table("db2", "Papers"), LAMBDA r : ~is_valid_id(r.PaperID)),
     valid1 |-> SelectRows(Table("db1", "Papers"), LAMBDA r : is_valid_id(r.PaperID)),
     valid2 |-> SelectRows(Table("db2", "Papers"), LAMBDA r : is_valid_id(r.PaperID))]

\* Lines 144-156
pp_titles(e) ==
    e @@ [skipped_empty_db1 |-> CountRows(e.valid1, empty_title),
          skipped_empty_db2 |-> CountRows(e.valid2, empty_title),
          kept1 |-> SelectRows(e.valid1, LAMBDA r : ~empty_title(r)),
          kept2 |-> SelectRows(e.valid2, LAMBDA r : ~empty_title(r))]

\* Lines 158-190
pp_columns(e) ==
    e @@ [p1 |-> paper_columns(e.kept1, "db1", lookup_rows(e.pa_enriched_db1)),
          p2 |-> paper_columns(e.kept2, "db2", lookup_rows(e.pa_enriched_db2))]

\* Line 192
pp_concat(e) == e @@ [all_papers |-> e.p1 \o e.p2]

\* Lines 210-216
pp_dedup(e, setorder) ==
    e @@ [unique_papers |->
            with_paper_uuid(group_papers(e.all_papers,
                                         sorted_keys({e.all_papers[i].key :
                                                        i \in 1..Len(e.all_papers)}),
                                         setorder))]

\* unique_papers[unique_papers["dedup_key"] == dedup_key]["paper_id"].iloc[0]
first_paper_id(unique_papers, dedup_key) ==
    unique_papers[CHOOSE u \in 1..Len(unique_papers) :
                     /\ unique_papers[u].key = dedup_key
                     /\ \A v \in 1..(u - 1) : unique_papers[v].key # dedup_key].paper_id

\* Lines 223-239: one mapping row per row of all_papers.
pp_mapping(e) ==
    e @@ [id_mapping |->
            [i \in 1..Len(e.all_papers) |->
                [source_db |-> e.all_papers[i].source_db,
                 old_paper_id |-> e.all_papers[i].PaperID,
                 old_title |-> e.all_papers[i].Title,
                 new_paper_id |-> first_paper_id(e.unique_papers, e.all_papers[i].key)]]]

\* Lines 242-325: the three files main() writes.  Of the nine scalar and the
\* eight boolean columns, which the code treats alike, Abstract and SoftCopy
\* are carried.
pp_files(e) ==
    ("PAPERS.csv" :>
        [i \in 1..Len(e.unique_papers) |->
            [paper_id |-> e.unique_papers[i].paper_id,
             title |-> e.unique_papers[i].Title,
             abstract |-> e.unique_papers[i].Abstract,
             year |-> e.unique_papers[i].Year,
             soft_copy |-> parse_bool(e.unique_papers[i].SoftCopy),
             authors_ids |-> render_authors_ids(e.unique_papers[i].authors_ids)]])
    @@ ("paper_id_mapping.csv" :> e.id_mapping)
    @@ ("papers_migration_metadata.csv" :>
        [source_db1_papers |-> e.orig_p1_count,
         source_db2_papers |-> e.orig_p2_count,
         skipped_invalid_id_db1 |-> e.skipped_db1,
         skipped_invalid_id_db2 |-> e.skipped_db2,
         skipped_empty_title_db1 |-> e.skipped_empty_db1,
         skipped_empty_title_db2 |-> e.skipped_empty_db2,
         valid_db1_papers |-> Len(e.p1),
         valid_db2_papers |-> Len(e.p2),
         duplicates_merged |-> Len(e.all_papers) - Len(e.unique_papers),
         unique_papers |-> Len(e.unique_papers),
         id_mappings |-> Len(e.id_mapping)])

\* all_papers of a run of papers_merge.main() on the current files.
papers_all == pp_concat(pp_columns(pp_titles(pp_load)))

\* papers_merge.main() past its check of the enriched files, with the Python
\* set iteration order setorder: the files it writes.
papers_main(e, setorder) == pp_files(pp_mapping(pp_dedup(e, setorder)))

\* Variant of papers_outcome that does not look for the enriched files.
papers_outcome_unchecked(setorder, bool_mask) ==
    IF (Table("db1", "Papers") = <<>> \/ Table("db2", "Papers") = <<>>) /\ ~bool_mask
    THEN [status |-> "raised", files |-> <<>>]
    ELSE [status |-> "ok", files |-> papers_main(papers_all, setorder)]

\* The outcome of papers_merge.main().  It returns at once unless both enriched
\* PapersAuthors files exist (lines 108-112).  p1[valid_mask_1] (lines 140-141)
\* of a Papers table without rows selects no column unless pandas takes the
\* empty mask for a boolean mask, and p1["Title"] (line 144) raises KeyError.
papers_outcome(setorder, bool_mask) ==
    IF ~({"papers_authors_enriched_db1.csv", "papers_authors_enriched_db2.csv"}
             \subseteq written)
    THEN [status |-> "returned", files |-> <<>>]
    ELSE IF (Table("db1", "Papers") = <<>> \/ Table("db2", "Papers") = <<>>) /\ ~bool_mask
    THEN [status |-> "raised", files |-> <<>>]
    ELSE [status |-> "ok", files |-> papers_main(papers_all, setorder)]

\* ------------------------------------------------------------ output files
BookAuthorsFiles == {"BOOK_AUTHORS.csv", "author_id_mapping.csv",
                     "book_authors_enriched_db1.csv", "book_authors_enriched_db2.csv",
                     "book_authors_migration_metadata.csv"}

BookTopicFiles == {"BOOK_TOPIC.csv", "topic_id_mapping.csv",
                   "book_topic_enriched_db1.csv", "book_topic_enriched_db2.csv",
                   "book_topic_migration_metadata.csv"}

PAuthorsFiles == {"PAUTHORS.csv", "pauthor_id_mapping.csv",
                  "papers_authors_enriched_db1.csv", "papers_authors_enriched_db2.csv",
                  "pauthors_migration_metadata.csv"}

PapersFiles == {"PAPERS.csv", "paper_id_mapping.csv", "papers_migration_metadata.csv"}

FileNames == BookAuthorsFiles \cup BookTopicFiles \cup PAuthorsFiles \cup PapersFiles

\* to_csv of every file in DOMAIN new: the files exist afterwards with the new content.
WriteFiles(new) ==
    /\ fs' = [f \in FileNames |-> IF f \in DOMAIN new THEN new[f] ELSE fs[f]]
    /\ written' = written \cup DOMAIN new

\* ---------------------------------------------------------------- inputs
\* All sequences over S of length at most n.
SeqsUpTo(S, n) == UNION {[1..k -> S] : k \in 0..n}

\* The rows of table t of db among the tagged rows, in order.
RowsOf(db, t, tagged) ==
    [i \in 1..Len(SelectRows(tagged, LAMBDA x : x.db = db /\ x.table = t)) |->
        SelectRows(tagged, LAMBDA x : x.db = db /\ x.table = t)[i].row]

Tag(dbs, t, rows) == { [db |-> d, table |-> t, row |-> r] : d \in dbs, r \in rows }

AuthorRow(id, f, m, l) == [AuthorID |-> id, FirstName |-> f, MiddleName |-> m, LastName |-> l]

BookAuthorRow(author) == [BookAuthorID |-> <<"7">>, BookID |-> <<"5">>, AuthorID |-> author]

TopicRow(id, t) == [TopicID |-> id, Topic |-> t]

BookTopicRow(topic) == [BookTopicID |-> <<"7">>, TopicID |-> topic, BookID |-> <<"5">>]

PAuthorRow(id, f, l) == [AuthorID |-> id, FirstName |-> f, LastName |-> l]

PapersAuthorsRow(paper, author) ==
    [PapersAuthorsID |-> <<"7">>, PaperID |-> paper, AuthorID |-> author]

PaperRow(id, title, year, abstract, soft) ==
    [PaperID |-> id, Title |-> title, Year |-> year, Abstract |-> abstract, SoftCopy |-> soft]

\* The table of each family whose rows are deduplicated, and its link table.
EntityTable == [book_authors |-> "Authors", book_topic |-> "Topic",
                pauthors |-> "PAuthors", papers |-> "Papers"]

LinkTableOf == [book_authors |-> "BookAuthors", book_topic |-> "BookTopic",
                pauthors |-> "PapersAuthors", papers |-> "PapersAuthors"]

\* The entity rows the sources of a family may hold.
\*   authors: one person under two ids and two spellings, another person under
\*     a reused id, a row with no name;
\*   topics: likewise;
\*   papers: one paper under two spellings, a titled paper without PaperID, a
\*     paper with a year but no title, a paper with neither, another paper.
EntityPool(fam) ==
    CASE fam = "book_authors" ->
           Tag({"db1"}, "Authors", { AuthorRow(<<"1">>, <<"J">>, <<" ">>, <<"S">>),
                                     AuthorRow(<<"1">>, <<"K">>, <<"j">>, NaN),
                                     AuthorRow(<<"2">>, <<" ">>, NaN, NaN) })
           \cup Tag({"db1", "db2"}, "Authors",
                    { AuthorRow(<<"8">>, <<"j">>, NaN, <<"s", " ">>) })
           \cup Tag({"db2"}, "Authors", { AuthorRow(<<"1">>, <<"K">>, <<"j">>, NaN) })
      [] fam = "book_topic" ->
           Tag({"db1"}, "Topic", { TopicRow(<<"1">>, <<"A", "i">>),
                                   TopicRow(<<"1">>, <<"D", "b">>),
                                   TopicRow(<<"2">>, <<" ">>) })
           \cup Tag({"db1", "db2"}, "Topic", { TopicRow(<<"8">>, <<" ", "a", "I">>) })
           \cup Tag({"db2"}, "Topic", { TopicRow(<<"1">>, <<"D", "b">>) })
      [] fam = "pauthors" ->
           Tag({"db1"}, "PAuthors", { PAuthorRow(<<"1">>, <<"J">>, <<"S">>),
                                      PAuthorRow(<<"1">>, <<"K">>, NaN),
                                      PAuthorRow(<<"2">>, <<" ">>, NaN) })
           \cup Tag({"db1", "db2"}, "PAuthors", { PAuthorRow(<<"8">>, <<"j", " ">>, <<"s">>) })
           \cup Tag({"db2"}, "PAuthors", { PAuthorRow(<<"1">>, <<"K">>, NaN) })
      [] fam = "papers" ->
           Tag({"db1"}, "Papers", { PaperRow(<<"1">>, <<"D">>, <<"2">>, <<"x">>, <<"1">>),
                                    PaperRow(NaN, <<"E">>, NaN, NaN, NaN),
                                    PaperRow(<<"2">>, <<" ">>, <<"3">>, NaN, <<"0">>),
                                    PaperRow(<<"3">>, NaN, NaN, NaN, NaN) })
           \cup Tag({"db1", "db2"}, "Papers",
                    { PaperRow(<<"8">>, <<"d", " ">>, <<"2">>, <<"y">>, <<"n", "o">>) })
           \cup Tag({"db2"}, "Papers",
                    { PaperRow(<<"9">>, <<"C">>, <<"2">>, NaN, <<"y", "e", "s">>) })

\* The foreign keys of the link tables of the two sources: no link; a
\* mapped id in both; in db1 an unmapped id, a missing id, "none", a mapped and
\* an unmapped id; in db2 "NAN"; links in one source only.
ForeignKeys ==
    { [db1 |-> <<>>, db2 |-> <<>>],
      [db1 |-> << <<"1">> >>, db2 |-> << <<"1">> >>],
      [db1 |-> << <<"9">> >>, db2 |-> << <<"1">> >>],
      [db1 |-> << NaN >>, db2 |-> << <<"1">> >>],
      [db1 |-> << <<"n", "o", "n", "e">> >>, db2 |-> << <<"1">> >>],
      [db1 |-> << <<"1">>, <<"9">> >>, db2 |-> << <<"1">> >>],
      [db1 |-> << <<"1">> >>, db2 |-> << <<"N", "A", "N">> >>],
      [db1 |-> << <<"1">> >>, db2 |-> <<>>],
      [db1 |-> <<>>, db2 |-> << <<"1">> >>] }

\* The link row of a family with foreign key k.
LinkRow(fam, k) ==
    CASE fam = "book_authors" -> BookAuthorRow(k)
      [] fam = "book_topic" -> BookTopicRow(k)
      [] fam = "pauthors" -> PapersAuthorsRow(<<"1">>, k)

\* The link tables the two sources of a family may hold.  The links of the
\* papers family join a paper of the source to the author of the source.
LinkTables(fam) ==
    IF fam = "papers"
    THEN { [db1 |-> l1, db2 |-> l2] :
             l1 \in {<<>>, <<PapersAuthorsRow(<<"1">>, <<"1">>)>>},
             l2 \in {<<>>, <<PapersAuthorsRow(<<"8">>, <<"1">>)>>} }
    ELSE { [db \in {"db1", "db2"} |-> [i \in 1..Len(fk[db]) |-> LinkRow(fam, fk[db][i])]] :
             fk \in ForeignKeys }

\* The authors of the papers family: one in each source.
PapersFamilyAuthors ==
    [db1 |-> <<PAuthorRow(<<"1">>, <<"J">>, <<"S">>)>>,
     db2 |-> <<PAuthorRow(<<"1">>, <<"K">>, NaN)>>]

\* The source tables of a family: the entity tables hold the tagged rows in
\* the order given, the link tables are links, every other table is empty.
Sources(fam, tagged, links) ==
    [d \in {"db1", "db2"} |->
        [t \in TableNames |->
            IF t = LinkTableOf[fam] THEN links[d]
            ELSE IF t = EntityTable[fam] THEN RowsOf(d, t, tagged)
            ELSE IF fam = "papers" /\ t = "PAuthors" THEN PapersFamilyAuthors[d]
            ELSE <<>>]]

Init ==
    /\ family \in Families
    /\ \E tagged \in SeqsUpTo(EntityPool(family), MaxRows), links \in LinkTables(family) :
         src = Sources(family, tagged, links)
    /\ fs = [f \in FileNames |-> <<>>]
    /\ written = {}
    /\ status = [s \in Scripts |-> "not run"]
    /\ verdict = [v \in Validators |-> NotRun]
    /\ pipe = NoPipeline
    /\ flat = NoFlatMerge

\* ---------------------------------------------------------------- actions
\* A run of a script that wrote the files of outcome and ended with its status.
Finish(script, outcome) ==
    /\ WriteFiles(outcome.files)
    /\ status' = [status EXCEPT ![script] = outcome.status]
    /\ UNCHANGED <<family, src, verdict, pipe, flat>>

\* book_authors_merge.main(): one run of the script with random stream seed.
BookAuthorsMerge ==
    /\ family = "book_authors"
    /\ \E seed \in Seeds, bool_mask \in BOOLEAN :
         Finish("book_authors_merge", book_authors_outcome(seed, bool_mask))

\* pauthors_merge.main()
PAuthorsMerge ==
    /\ family \in {"pauthors", "papers"}
    /\ \E bool_mask \in BOOLEAN :
         Finish("pauthors_merge", pauthors_outcome(bool_mask))

\* book_topic_merge.main()
BookTopicMerge ==
    /\ family = "book_topic"
    /\ \E seed \in Seeds :
         Finish("book_topic_merge", book_topic_main(seed))

\* papers_merge.main()
PapersMerge ==
    /\ family = "papers"
    /\ \E setorder \in Orderings(AuthorIdsOf(papers_all.all_papers)), bool_mask \in BOOLEAN :
         Finish("papers_merge", papers_outcome(setorder, bool_mask))

Next ==
    \/ BookAuthorsMerge
    \/ BookTopicMerge
    \/ PAuthorsMerge
    \/ PapersMerge

Spec == Init /\ [][Next]_vars

\* ------------------------------------------------------ spelling variants
\* Entity rows that spell one name in several ways: letter case, blanks
\* around the value, runs of blanks inside it; for the paper authors also two
\* names that hold the delimiter of the uuid name; for the papers also the
\* spellings of the boolean column, a missing and a blank value among them.
EdgePool(fam) ==
    CASE fam = "book_authors" ->
           Tag({"db1"}, "Authors",
               { AuthorRow(<<"1">>, <<"A">>, NaN, <<"b", " ", "c">>),
                 AuthorRow(<<"4">>, <<"a", " ", " ", "b">>, <<"c">>, <<"d">>) })
           \cup Tag({"db2"}, "Authors",
                    { AuthorRow(<<"2">>, <<" ", "a", " ">>, NaN, <<"B", " ", " ", "c">>),
                      AuthorRow(<<"3">>, <<"a">>, NaN, <<"B", " ", "C">>),
                      AuthorRow(<<"5">>, <<"A", " ", "b">>, <<" ", "C">>, <<"D">>) })
      [] fam = "book_topic" ->
           Tag({"db1"}, "Topic", { TopicRow(<<"1">>, <<"x", " ", "y">>),
                                   TopicRow(<<"4">>, <<"X", " ", "Y">>) })
           \cup Tag({"db2"}, "Topic", { TopicRow(<<"2">>, <<"X", " ", " ", "y">>),
                                        TopicRow(<<"3">>, <<" ", "X", " ", "y", " ">>) })
      [] fam = "pauthors" ->
           Tag({"db1"}, "PAuthors",
               { PAuthorRow(<<"1">>, <<"A">>, <<"b", " ", "c">>),
                 PAuthorRow(<<"4">>, <<"x">>, <<"a">> \o Chars_firstname \o <<"b">>) })
           \cup Tag({"db2"}, "PAuthors",
                    { PAuthorRow(<<"2">>, <<"a", " ">>, <<"B", " ", " ", "c">>),
                      PAuthorRow(<<"3">>, <<"a">>, <<"B", " ", "C">>),
                      PAuthorRow(<<"5">>, <<"b">> \o Chars_firstname \o <<"x">>, <<"a">>) })
      [] fam = "papers" ->
           Tag({"db1"}, "Papers",
               { PaperRow(<<"1">>, <<"x", " ", "y">>, <<"2">>, NaN, <<" ", "Y", "e", "s">>),
                 PaperRow(<<"4">>, <<"z">>, NaN, NaN, <<"-", "1">>),
                 PaperRow(<<"6">>, <<"w">>, NaN, NaN, NaN),
                 PaperRow(<<"7">>, <<"v">>, NaN, NaN, <<" ">>) })
           \cup Tag({"db2"}, "Papers",
                    { PaperRow(<<"2">>, <<"X", " ", " ", "y">>, <<"2">>, NaN, <<"0">>),
                      PaperRow(<<"3">>, <<" ", "X", " ", "y", " ">>, <<"2", " ">>, <<"q">>,
                               <<"T", "R", "U", "E">>),
                      PaperRow(<<"5">>, <<"Z">>, NaN, NaN, <<"t">>) })

\* The link tables of the spelling variants: one link in each source.
EdgeLinks(fam) ==
    IF fam = "papers"
    THEN [db1 |-> <<PapersAuthorsRow(<<"1">>, <<"1">>)>>,
          db2 |-> <<PapersAuthorsRow(<<"3">>, <<"1">>)>>]
    ELSE [db \in {"db1", "db2"} |-> <<LinkRow(fam, <<"1">>)>>]

EdgeInit ==
    /\ family \in Families
    /\ \E tagged \in SeqsUpTo(EdgePool(family), EdgeRows) :
         src = Sources(family, tagged, EdgeLinks(family))
    /\ fs = [f \in FileNames |-> <<>>]
    /\ written = {}
    /\ status = [s \in Scripts |-> "not run"]
    /\ verdict = [v \in Validators |-> NotRun]
    /\ pipe = NoPipeline
    /\ flat = NoFlatMerge

\* The merge scripts run on sources that hold spelling variants.
EdgeSpec == EdgeInit /\ [][Next]_vars

\* ------------------------------------------ check_book_authors_merge.py
\* get_keys_series(df) for one row.
get_keys_series(row) ==
    Join2(lower(collapse_ws(strip(Join2(clean_str(row.FirstName), " ",
                                        clean_str(row.MiddleName))))),
          "|", lower(clean_str(row.LastName)))

\* get_norm_keys(df)
get_norm_keys(rows) == {get_keys_series(rows[i]) : i \in 1..Len(rows)} \ {EmptyNameKey}

\* The files main() reads, in the order in which it reads them.
cba_reads ==
    <<"BOOK_AUTHORS.csv", "author_id_mapping.csv", "book_authors_enriched_db1.csv",
      "book_authors_enriched_db2.csv", "book_authors_migration_metadata.csv",
      "db1/Authors.csv", "db2/Authors.csv">>

\* The file exists.  A source table without rows is a file that holds the
\* header only, or no file at all: absent holds the sources without Authors.csv.
cba_exists(f, absent) ==
    IF f = "db1/Authors.csv" THEN "db1" \notin absent
    ELSE IF f = "db2/Authors.csv" THEN "db2" \notin absent
    ELSE f \in written

\* The file whose pd.read_csv raises FileNotFoundError: the first that does not
\* exist, "none" when all exist.
cba_missing(absent) ==
    IF \A i \in 1..Len(cba_reads) : cba_exists(cba_reads[i], absent) THEN "none"
    ELSE cba_reads[CHOOSE i \in 1..Len(cba_reads) :
                      /\ ~cba_exists(cba_reads[i], absent)
                      /\ \A j \in 1..(i - 1) : cba_exists(cba_reads[j], absent)]

\* nf.str.lower() + "|" + nl.str.lower() for one row of BOOK_AUTHORS.csv as
\* pd.read_csv returns it.
new_keys_series(row) ==
    Join2(lower(clean_str(read_csv_cell(row.first_name))), "|",
          lower(clean_str(read_csv_cell(row.last_name))))

\* set(mapping[mapping["source_db"] == db]["old_author_id"].astype(str))
mapped_ids(mapping, db) ==
    {py_str(read_csv_cell(mapping[i].old_author_id)) :
        i \in {m \in 1..Len(mapping) : mapping[m].source_db = db}}

\* set(src[src_keys != "|"]["AuthorID"].dropna().astype(str))
src_ids(rows) ==
    {rows[i].AuthorID :
        i \in {r \in 1..Len(rows) :
                 get_keys_series(rows[r]) # EmptyNameKey /\ ~isna(rows[r].AuthorID)}}

\* The mapped uuids of check 3, without NaN, "" and "nan".
mapped_uuids(mapping) ==
    {read_csv_cell(mapping[i].new_book_author_id) : i \in 1..Len(mapping)}
    \ {NaN, EmptyStr, <<"n", "a", "n">>}

\* series.duplicated().any()
duplicated_any(cells) == \E i, j \in 1..Len(cells) : i # j /\ cells[i] = cells[j]

\* enriched["new_book_author_id"].isna() | (enriched["new_book_author_id"] == "")
enriched_missing(enriched) ==
    Cardinality({i \in 1..Len(enriched) :
                   read_csv_cell(enriched[i].new_book_author_id) \in {NaN, EmptyStr}})

\* Checks 1 to 6 of main(), in order: TRUE where the check prints [PASS].
cba_checks(new_authors, mapping, enriched_db1, enriched_db2, meta, src1, src2) ==
    << (get_norm_keys(src1) \cup get_norm_keys(src2))
          \subseteq ({new_keys_series(new_authors[i]) : i \in 1..Len(new_authors)}
                     \ {EmptyNameKey}),
       src_ids(src1) \subseteq mapped_ids(mapping, "db1"),
       src_ids(src2) \subseteq mapped_ids(mapping, "db2"),
       mapped_uuids(mapping)
          \subseteq {read_csv_cell(new_authors[i].book_author_id) : i \in 1..Len(new_authors)},
       ~duplicated_any([i \in 1..Len(new_authors) |->
                           read_csv_cell(new_authors[i].book_author_id)]),
       ~duplicated_any([i \in 1..Len(new_authors) |-> new_keys_series(new_authors[i])]),
       enriched_missing(enriched_db1) = 0,
       enriched_missing(enriched_db2) = 0,
       Len(enriched_db1) = meta.source_db1_book_authors - meta.skipped_incomplete_db1
                             - meta.orphaned_db1,
       Len(enriched_db2) = meta.source_db2_book_authors - meta.skipped_incomplete_db2
                             - meta.orphaned_db2,
       Len(new_authors) = Cardinality(get_norm_keys(src1) \cup get_norm_keys(src2)) >>

\* The [WARN] lines of main(): unexpected authors, skipped links, orphaned links.
cba_warnings(new_authors, meta, src1, src2) ==
    << ({new_keys_series(new_authors[i]) : i \in 1..Len(new_authors)} \ {EmptyNameKey})
          \ (get_norm_keys(src1) \cup get_norm_keys(src2)) # {},
       meta.skipped_incomplete_db1 + meta.skipped_incomplete_db2 > 0,
       meta.orphaned_db1 + meta.orphaned_db2 > 0 >>

\* The number of positions of a sequence of booleans that hold b.
CountOf(bools, b) == Cardinality({i \in 1..Len(bools) : bools[i] = b})

\* What checks 1 to 6 of main() verify, in order.
cba_names ==
    <<"preserved", "mapping_db1", "mapping_db2", "uuids", "duplicate_ids", "duplicate_keys",
      "enriched_db1", "enriched_db2", "rows_db1", "rows_db2", "row_count">>

\* The summary of main() and the exit status: 0 when no check failed.
cba_summary(checks, warnings) ==
    [ran |-> TRUE, exit |-> IF CountOf(checks, FALSE) = 0 THEN 0 ELSE 1, missing |-> "none",
     passed |-> CountOf(checks, TRUE), failed |-> CountOf(checks, FALSE),
     warned |-> CountOf(warnings, TRUE),
     failed_checks |-> {cba_names[i] : i \in {c \in 1..Len(checks) : ~checks[c]}}]

\* check_book_authors_merge.main() and sys.exit: a file that does not exist
\* ends the run with "[FAIL] Missing file" and exit status 1 before any check.
check_book_authors_main(absent) ==
    IF cba_missing(absent) # "none"
    THEN [ran |-> TRUE, exit |-> 1, missing |-> cba_missing(absent), passed |-> 0,
          failed |-> 0, warned |-> 0, failed_checks |-> {}]
    ELSE cba_summary(cba_checks(fs["BOOK_AUTHORS.csv"], fs["author_id_mapping.csv"],
                                fs["book_authors_enriched_db1.csv"],
                                fs["book_authors_enriched_db2.csv"],
                                fs["book_authors_migration_metadata.csv"],
                                Table("db1", "Authors"), Table("db2", "Authors")),
                     cba_warnings(fs["BOOK_AUTHORS.csv"],
                                  fs["book_authors_migration_metadata.csv"],
                                  Table("db1", "Authors"), Table("db2", "Authors")))

\* A validator that deletes the merge output it found faulty.
report_and_repair(validator, v) ==
    /\ verdict' = [verdict EXCEPT ![validator] = v]
    /\ written' = IF v.exit = 0 THEN written ELSE {}
    /\ UNCHANGED <<family, src, fs, status, pipe, flat>>

\* The effect of a run of a validator: main() reads the files, prints its
\* report and ends with the exit status; it writes no file.
report(validator, v) ==
    /\ verdict' = [verdict EXCEPT ![validator] = v]
    /\ UNCHANGED <<family, src, fs, written, status, pipe, flat>>

\* One run of the validator of the book authors.
CheckBookAuthorsMerge ==
    /\ family = "book_authors"
    /\ \E absent \in SUBSET {db \in {"db1", "db2"} : Table(db, "Authors") = <<>>} :
          report("check_book_authors_merge", check_book_authors_main(absent))

\* ------------------------------------------- check_book_topic_merge.py
\* normalize_topic(name)
normalize_topic(name) == IF isna(name) THEN EmptyStr ELSE lower(strip(py_str(name)))

\* load_source_topics(db_path): the empty set when there is no Topic.csv.
load_source_topics(db, absent) ==
    IF db \in absent THEN {}
    ELSE {normalize_topic(Table(db, "Topic")[i].Topic) :
             i \in {r \in 1..Len(Table(db, "Topic")) :
                      /\ ~isna(Table(db, "Topic")[r].Topic)
                      /\ strip(py_str(Table(db, "Topic")[r].Topic)) # EmptyStr}}

\* load_source_topic_ids(db_path): the ids of all rows, named or not.
load_source_topic_ids(db, absent) ==
    IF db \in absent THEN {}
    ELSE {py_str(Table(db, "Topic")[i].TopicID) :
             i \in {r \in 1..Len(Table(db, "Topic")) : ~isna(Table(db, "Topic")[r].TopicID)}}

\* required_files of main()
required_files ==
    <<"BOOK_TOPIC.csv", "topic_id_mapping.csv", "book_topic_enriched_db1.csv",
      "book_topic_enriched_db2.csv", "book_topic_migration_metadata.csv">>

\* result.passed(...) when ok, result.failed(...) otherwise, for the check name.
cbt_check(name, ok) == <<[name |-> name, result |-> IF ok THEN "passed" ELSE "failed"]>>

\* result.warn(...) when cond holds, for the check name.
cbt_warn(name, cond) == IF cond THEN <<[name |-> name, result |-> "warned"]>> ELSE <<>>

\* Check 1: one result for each required file.
cbt_files_exist ==
    [i \in 1..Len(required_files) |->
        [name |-> "output_files",
         result |-> IF required_files[i] \in written THEN "passed" ELSE "failed"]]

\* Lines 140-157: the output files as pd.read_csv returns them, and the topics
\* and ids of the sources.
cbt_load(absent) ==
    [book_topic_new |->
        [i \in 1..Len(fs["BOOK_TOPIC.csv"]) |->
            [book_topic_id |-> read_csv_cell(fs["BOOK_TOPIC.csv"][i].book_topic_id),
             topic_name |-> read_csv_cell(fs["BOOK_TOPIC.csv"][i].topic_name)]],
     id_mapping |->
        [i \in 1..Len(fs["topic_id_mapping.csv"]) |->
            [source_db |-> fs["topic_id_mapping.csv"][i].source_db,
             old_topic_id |-> read_csv_cell(fs["topic_id_mapping.csv"][i].old_topic_id),
             new_book_topic_id |->
                 read_csv_cell(fs["topic_id_mapping.csv"][i].new_book_topic_id)]],
     enriched_db1 |->
        [i \in 1..Len(fs["book_topic_enriched_db1.csv"]) |->
            [TopicName |-> read_csv_cell(fs["book_topic_enriched_db1.csv"][i].TopicName)]],
     enriched_db2 |->
        [i \in 1..Len(fs["book_topic_enriched_db2.csv"]) |->
            [TopicName |-> read_csv_cell(fs["book_topic_enriched_db2.csv"][i].TopicName)]],
     metadata |-> fs["book_topic_migration_metadata.csv"],
     all_source_topics |-> load_source_topics("db1", absent)
                              \cup load_source_topics("db2", absent),
     source_ids_db1 |-> load_source_topic_ids("db1", absent),
     source_ids_db2 |-> load_source_topic_ids("db2", absent)]

\* new_topics of check 2
cbt_new_topics(e) ==
    {normalize_topic(e.book_topic_new[i].topic_name) : i \in 1..Len(e.book_topic_new)}

\* Check 2: every source topic is in BOOK_TOPIC.csv; other topics there are
\* a warning.
cbt_preserved(e) ==
    cbt_check("preserved", e.all_source_topics \subseteq cbt_new_topics(e))
    \o cbt_warn("unexpected", cbt_new_topics(e) \ e.all_source_topics # {})

\* set(id_mapping[id_mapping["source_db"] == db]["old_topic_id"].astype(str))
mapped_topic_ids(id_mapping, db) ==
    {py_str(id_mapping[i].old_topic_id) :
        i \in {m \in 1..Len(id_mapping) : id_mapping[m].source_db = db}}

\* Check 3: every source TopicID has a mapping row of its source.
cbt_mapped(e) ==
    cbt_check("mapping_db1", e.source_ids_db1 \subseteq mapped_topic_ids(e.id_mapping, "db1"))
    \o cbt_check("mapping_db2",
                 e.source_ids_db2 \subseteq mapped_topic_ids(e.id_mapping, "db2"))

\* Check 4: the mapped uuids, without NaN, "" and "nan", are in BOOK_TOPIC.csv.
cbt_uuids(e) ==
    cbt_check("uuids",
              ({e.id_mapping[i].new_book_topic_id : i \in 1..Len(e.id_mapping)}
                   \ {NaN, EmptyStr, <<"n", "a", "n">>})
              \subseteq {e.book_topic_new[i].book_topic_id : i \in 1..Len(e.book_topic_new)})

\* enriched[enriched["TopicName"].isna() | (enriched["TopicName"] == "")]
missing_names(enriched) ==
    {i \in 1..Len(enriched) : enriched[i].TopicName \in {NaN, EmptyStr}}

\* Check 5: the enriched files have the rows the metadata announce, and
\* every row has a TopicName.
cbt_enriched(e) ==
    cbt_check("rows_db1", Len(e.enriched_db1) = e.metadata.source_db1_book_topics
                                                   - e.metadata.skipped_incomplete_db1)
    \o cbt_check("rows_db2", Len(e.enriched_db2) = e.metadata.source_db2_book_topics
                                                      - e.metadata.skipped_incomplete_db2)
    \o cbt_check("enriched_db1", missing_names(e.enriched_db1) = {})
    \o cbt_check("enriched_db2", missing_names(e.enriched_db2) = {})

\* Check 6: fewer rows than unique topics fail, more rows warn; a mapping of
\* another size than the source ids warns.
cbt_counts(e) ==
    (IF Len(e.book_topic_new) > Cardinality(e.all_source_topics)
     THEN cbt_warn("row_count", TRUE)
     ELSE cbt_check("row_count", Len(e.book_topic_new) = Cardinality(e.all_source_topics)))
    \o (IF Len(e.id_mapping) = Cardinality(e.source_ids_db1) + Cardinality(e.source_ids_db2)
        THEN cbt_check("mapping_count", TRUE)
        ELSE cbt_warn("mapping_count", TRUE))

\* Check 7: no uuid and no normalized name twice in BOOK_TOPIC.csv.
cbt_duplicates(e) ==
    cbt_check("duplicate_ids",
              ~duplicated_any([i \in 1..Len(e.book_topic_new) |->
                                  e.book_topic_new[i].book_topic_id]))
    \o cbt_check("duplicate_keys",
                 ~duplicated_any([i \in 1..Len(e.book_topic_new) |->
                                     normalize_topic(e.book_topic_new[i].topic_name)]))

\* Check 8: skipped links warn; enriched plus skipped rows are the source rows.
cbt_skipped(e) ==
    (IF e.metadata.skipped_incomplete_db1 + e.metadata.skipped_incomplete_db2 > 0
     THEN cbt_warn("skipped", TRUE)
     ELSE cbt_check("skipped", TRUE))
    \o cbt_check("sum_db1", Len(e.enriched_db1) + e.metadata.skipped_incomplete_db1
                               = e.metadata.source_db1_book_topics)
    \o cbt_check("sum_db2", Len(e.enriched_db2) + e.metadata.skipped_incomplete_db2
                               = e.metadata.source_db2_book_topics)

\* ValidationResult.summary() and the exit status: 0 when checks_failed is 0.
cbt_summary(results) ==
    [ran |-> TRUE,
     exit |-> IF \E i \in 1..Len(results) : results[i].result = "failed" THEN 1 ELSE 0,
     missing |-> "none",
     passed |-> Cardinality({i \in 1..Len(results) : results[i].result = "passed"}),
     failed |-> Cardinality({i \in 1..Len(results) : results[i].result = "failed"}),
     warned |-> Cardinality({i \in 1..Len(results) : results[i].result = "warned"}),
     failed_checks |-> {results[i].name :
                           i \in {r \in 1..Len(results) : results[r].result = "failed"}}]

\* Checks 2 to 8 on the loaded files.
cbt_checks(e) ==
    cbt_preserved(e) \o cbt_mapped(e) \o cbt_uuids(e) \o cbt_enriched(e) \o cbt_counts(e)
    \o cbt_duplicates(e) \o cbt_skipped(e)

\* check_book_topic_merge.main(): with a required file missing it stops after
\* check 1.
check_book_topic_main(absent) ==
    IF \E i \in 1..Len(cbt_files_exist) : cbt_files_exist[i].result = "failed"
    THEN cbt_summary(cbt_files_exist)
    ELSE cbt_summary(cbt_files_exist \o cbt_checks(cbt_load(absent)))

\* One run of the validator of the book topics.
CheckBookTopicMerge ==
    /\ family = "book_topic"
    /\ \E absent \in SUBSET {db \in {"db1", "db2"} : Table(db, "Topic") = <<>>} :
          report("check_book_topic_merge", check_book_topic_main(absent))

\* ----------------------------------------------- check_papers_merge.py
\* get_dedup_keys(df)
get_dedup_keys(rows) ==
    {Join2(normalize_title(rows[i].Title), "|", norm_year(rows[i].Year)) :
        i \in {r \in 1..Len(rows) : normalize_title(rows[r].Title) # EmptyStr}}

\* parse_authors_array(val): the ids between the braces of the array.
parse_authors_array(val) ==
    IF isna(val) \/ val = <<"{", "}">> THEN {}
    ELSE {val[i] : i \in {k \in 2..(Len(val) - 1) : val[k] # ","}}

\* The files main() reads, in the order in which it reads them.
cpp_reads ==
    <<"PAPERS.csv", "paper_id_mapping.csv", "papers_migration_metadata.csv", "PAUTHORS.csv",
      "db1/Papers.csv", "db2/Papers.csv">>

\* The file exists; absent holds the sources without Papers.csv.
cpp_exists(f, absent) ==
    IF f = "db1/Papers.csv" THEN "db1" \notin absent
    ELSE IF f = "db2/Papers.csv" THEN "db2" \notin absent
    ELSE f \in written

\* The file whose pd.read_csv raises FileNotFoundError, "none" when all exist.
cpp_missing(absent) ==
    IF \A i \in 1..Len(cpp_reads) : cpp_exists(cpp_reads[i], absent) THEN "none"
    ELSE cpp_reads[CHOOSE i \in 1..Len(cpp_reads) :
                      /\ ~cpp_exists(cpp_reads[i], absent)
                      /\ \A j \in 1..(i - 1) : cpp_exists(cpp_reads[j], absent)]

\* Lines 59-65: the files as pd.read_csv returns them.
cpp_load ==
    [new_papers |->
        [i \in 1..Len(fs["PAPERS.csv"]) |->
            [paper_id |-> read_csv_cell(fs["PAPERS.csv"][i].paper_id),
             title |-> read_csv_cell(fs["PAPERS.csv"][i].title),
             year |-> read_csv_cell(fs["PAPERS.csv"][i].year),
             soft_copy |-> fs["PAPERS.csv"][i].soft_copy,
             authors_ids |-> fs["PAPERS.csv"][i].authors_ids]],
     mapping |->
        [i \in 1..Len(fs["paper_id_mapping.csv"]) |->
            [source_db |-> fs["paper_id_mapping.csv"][i].source_db,
             old_paper_id |-> read_csv_cell(fs["paper_id_mapping.csv"][i].old_paper_id),
             new_paper_id |-> read_csv_cell(fs["paper_id_mapping.csv"][i].new_paper_id)]],
     meta |-> fs["papers_migration_metadata.csv"],
     pauthors |-> fs["PAUTHORS.csv"],
     src1 |-> Table("db1", "Papers"),
     src2 |-> Table("db2", "Papers")]

\* new_titles + "|" + new_years for one row of PAPERS.csv.
title_year_keys(row) == Join2(normalize_title(row.title), "|", norm_year(row.year))

\* set(mapping[mapping["source_db"] == db]["old_paper_id"].astype(str))
mapped_paper_ids(mapping, db) ==
    {py_str(mapping[i].old_paper_id) :
        i \in {m \in 1..Len(mapping) : mapping[m].source_db = db}}

\* set(src_valid["PaperID"].dropna().astype(str)) of the rows with a title.
src_paper_ids(rows) ==
    {rows[i].PaperID :
        i \in {r \in 1..Len(rows) :
                 normalize_title(rows[r].Title) # EmptyStr /\ ~isna(rows[r].PaperID)}}

\* invalid_author_refs of check 5: the ids referenced by a paper that are no
\* author_id of PAUTHORS.csv.
invalid_author_refs(new_papers, pauthors) ==
    UNION {parse_authors_array(new_papers[i].authors_ids) : i \in 1..Len(new_papers)}
    \ {pauthors[i].author_id : i \in 1..Len(pauthors)}

\* expected_unique of check 7
expected_unique(meta) ==
    (meta.source_db1_papers - meta.skipped_invalid_id_db1 - meta.skipped_empty_title_db1)
    + (meta.source_db2_papers - meta.skipped_invalid_id_db2 - meta.skipped_empty_title_db2)
    - meta.duplicates_merged

\* Checks 1 to 8 of main(), in order: TRUE where the check prints [PASS].  The
\* boolean column holds what to_csv prints for a bool, the required columns
\* are those papers_merge writes.
cpp_checks(e) ==
    << (get_dedup_keys(e.src1) \cup get_dedup_keys(e.src2))
          \subseteq ({title_year_keys(e.new_papers[i]) : i \in 1..Len(e.new_papers)}
                     \ {EmptyNameKey}),
       src_paper_ids(e.src1) \subseteq mapped_paper_ids(e.mapping, "db1"),
       src_paper_ids(e.src2) \subseteq mapped_paper_ids(e.mapping, "db2"),
       ({e.mapping[i].new_paper_id : i \in 1..Len(e.mapping)}
            \ {NaN, EmptyStr, <<"n", "a", "n">>})
          \subseteq {e.new_papers[i].paper_id : i \in 1..Len(e.new_papers)},
       ~duplicated_any([i \in 1..Len(e.new_papers) |-> e.new_papers[i].paper_id]),
       ~duplicated_any([i \in 1..Len(e.new_papers) |-> title_year_keys(e.new_papers[i])]),
       invalid_author_refs(e.new_papers, e.pauthors) = {},
       \A i \in 1..Len(e.new_papers) : e.new_papers[i].soft_copy \in BOOLEAN,
       Len(e.new_papers) = expected_unique(e.meta),
       {"paper_id", "title"} \subseteq {"paper_id", "title", "abstract", "year", "soft_copy",
                                        "authors_ids"},
       \A i \in 1..Len(e.new_papers) : e.new_papers[i].paper_id \notin {NaN, EmptyStr} >>

\* What checks 1 to 8 verify, in order.
cpp_names ==
    <<"preserved", "mapping_db1", "mapping_db2", "uuids", "duplicate_ids", "duplicate_keys",
      "author_refs", "booleans", "row_count", "columns", "empty_ids">>

\* The [WARN] lines of main(): unexpected papers, papers skipped for their
\* id, papers skipped for their title.
cpp_warnings(e) ==
    << ({title_year_keys(e.new_papers[i]) : i \in 1..Len(e.new_papers)} \ {EmptyNameKey})
          \ (get_dedup_keys(e.src1) \cup get_dedup_keys(e.src2)) # {},
       e.meta.skipped_invalid_id_db1 + e.meta.skipped_invalid_id_db2 > 0,
       e.meta.skipped_empty_title_db1 + e.meta.skipped_empty_title_db2 > 0 >>

\* The summary of main() and the exit status: 0 when no check failed.
cpp_summary(checks, warnings) ==
    [ran |-> TRUE, exit |-> IF CountOf(checks, FALSE) = 0 THEN 0 ELSE 1, missing |-> "none",
     passed |-> CountOf(checks, TRUE), failed |-> CountOf(checks, FALSE),
     warned |-> CountOf(warnings, TRUE),
     failed_checks |-> {cpp_names[i] : i \in {c \in 1..Len(checks) : ~checks[c]}}]

\* check_papers_merge.main() and sys.exit: a file that does not exist ends the
\* run with "[FAIL] Missing file" and exit status 1 before any check.
check_papers_main(absent) ==
    IF cpp_missing(absent) # "none"
    THEN [ran |-> TRUE, exit |-> 1, missing |-> cpp_missing(absent), passed |-> 0,
          failed |-> 0, warned |-> 0, failed_checks |-> {}]
    ELSE cpp_summary(cpp_checks(cpp_load), cpp_warnings(cpp_load))

\* One run of the validator of the papers.
CheckPapersMerge ==
    /\ family = "papers"
    /\ \E absent \in SUBSET {db \in {"db1", "db2"} : Table(db, "Papers") = <<>>} :
          report("check_papers_merge", check_papers_main(absent))

CheckNext ==
    \/ Next
    \/ CheckBookAuthorsMerge
    \/ CheckBookTopicMerge
    \/ CheckPapersMerge

\* The merge scripts and the validator run in any order.
CheckSpec == Init /\ [][CheckNext]_vars

\* ------------------------------------------------------ reordered sources
\* The bijections of 1..n.
RowOrders(n) == {p \in [1..n -> 1..n] : \A i, j \in 1..n : p[i] = p[j] => i = j}

\* The rows of seq in the order p.
Permuted(seq, p) == [i \in 1..Len(seq) |-> seq[p[i]]]

\* pd.read_csv yields the rows of a table in the order of the file.  Between
\* two runs the rows of one entity or link table of one source come to stand in
\* another order; the rows themselves, and every other table, are unchanged.
Reorder ==
    \E db \in {"db1", "db2"}, t \in {EntityTable[family], LinkTableOf[family]} :
        \E p \in RowOrders(Len(src[db][t])) :
            /\ Permuted(src[db][t], p) # src[db][t]
            /\ src' = [src EXCEPT ![db][t] = Permuted(src[db][t], p)]
            /\ UNCHANGED <<family, fs, written, status, verdict, pipe, flat>>

OrderNext ==
    \/ Next
    \/ Reorder

\* The merge scripts run again and again on sources whose rows are reordered.
OrderSpec == Init /\ [][OrderNext]_vars

\* ----------------------------------------------------- failing writes
\* The files of each script in the order of its to_csv calls.
WriteOrder ==
    [book_authors_merge |->
        <<"BOOK_AUTHORS.csv", "author_id_mapping.csv", "book_authors_enriched_db1.csv",
          "book_authors_enriched_db2.csv", "book_authors_migration_metadata.csv">>,
     pauthors_merge |->
        <<"PAUTHORS.csv", "pauthor_id_mapping.csv", "papers_authors_enriched_db1.csv",
          "papers_authors_enriched_db2.csv", "pauthors_migration_metadata.csv">>,
     book_topic_merge |->
        <<"book_topic_enriched_db1.csv", "book_topic_enriched_db2.csv", "BOOK_TOPIC.csv",
          "topic_id_mapping.csv", "book_topic_migration_metadata.csv">>,
     papers_merge |->
        <<"PAPERS.csv", "paper_id_mapping.csv", "papers_migration_metadata.csv">>]

\* The scripts that run on the tables of a family.
ScriptsOf ==
    [book_authors |-> {"book_authors_merge"}, book_topic |-> {"book_topic_merge"},
     pauthors |-> {"pauthors_merge"}, papers |-> {"pauthors_merge", "papers_merge"}]

\* The outcomes a run of the script can have on the current sources and files.
Outcomes(script) ==
    CASE script = "book_authors_merge" ->
           {book_authors_outcome(seed, bool_mask) : seed \in Seeds, bool_mask \in BOOLEAN}
      [] script = "pauthors_merge" -> {pauthors_outcome(bool_mask) : bool_mask \in BOOLEAN}
      [] script = "book_topic_merge" -> {book_topic_main(seed) : seed \in Seeds}
      [] script = "papers_merge" ->
           {papers_outcome(setorder, bool_mask) :
               setorder \in Orderings(AuthorIdsOf(papers_all.all_papers)),
               bool_mask \in BOOLEAN}

\* The first n files of a run, as written when the next to_csv raises.
FilesBefore(files, order, n) == [f \in {order[i] : i \in 1..n} |-> files[f]]

\* A run of a script in which a to_csv call raises OSError (no space, no
\* permission): no script catches it, the run ends there and the files of the
\* calls before it stay written.
WriteFails ==
    \E script \in ScriptsOf[family] :
        \E outcome \in Outcomes(script), n \in 0..(Len(WriteOrder[script]) - 1) :
            /\ outcome.status = "ok"
            /\ Finish(script, [status |-> "write failed",
                               files |-> FilesBefore(outcome.files, WriteOrder[script], n)])

FailNext ==
    \/ Next
    \/ WriteFails

\* The merge scripts run on a disk on which a write may fail.
FailSpec == EdgeInit /\ [][FailNext]_vars

\* --------------------------------------------------------- edited sources
\* The link tables of the edited sources: in each source one link to id 1.
StaleLinks(fam) ==
    IF fam = "papers"
    THEN [db1 |-> <<PapersAuthorsRow(<<"1">>, <<"1">>)>>,
          db2 |-> <<PapersAuthorsRow(<<"8">>, <<"1">>)>>]
    ELSE [db \in {"db1", "db2"} |-> <<LinkRow(fam, <<"1">>)>>]

StaleInit ==
    /\ family \in Families
    /\ \E tagged \in SeqsUpTo(EntityPool(family), StaleRows) :
         src = Sources(family, tagged, StaleLinks(family))
    /\ fs = [f \in FileNames |-> <<>>]
    /\ written = {}
    /\ status = [s \in Scripts |-> "not run"]
    /\ verdict = [v \in Validators |-> NotRun]
    /\ pipe = NoPipeline
    /\ flat = NoFlatMerge

\* The sequence without its i-th element.
Without(seq, i) == [k \in 1..(Len(seq) - 1) |-> IF k < i THEN seq[k] ELSE seq[k + 1]]

\* After a merge and before the validators run, the entity table of one
\* source is edited: a row is deleted from it, or a row is added at its end.
\* pd.read_csv of the next run returns the edited table; the files written
\* before stay as they are.
SourceEdited ==
    \E db \in {"db1", "db2"} :
        /\ written # {}
        /\ \A v \in Validators : ~verdict[v].ran
        /\ \/ \E i \in 1..Len(src[db][EntityTable[family]]) :
                 src' = [src EXCEPT ![db][EntityTable[family]] = Without(@, i)]
           \/ \E r \in {x \in EntityPool(family) : x.db = db} :
                 /\ Len(src["db1"][EntityTable[family]])
                      + Len(src["db2"][EntityTable[family]]) < StaleRows
                 /\ src' = [src EXCEPT ![db][EntityTable[family]] = Append(@, r.row)]
        /\ UNCHANGED <<family, fs, written, status, verdict, pipe, flat>>

StaleNext ==
    \/ CheckNext
    \/ SourceEdited

\* The merge scripts and the validators run on sources that are edited
\* between the runs.
StaleSpec == StaleInit /\ [][StaleNext]_vars

\* --------------------------------------------------------- run_pipline.py
CORE_PIPELINE_STEPS ==
    << [name |-> "Clean CSV files", script |-> "clean_csv.py", required |-> TRUE],
       [name |-> "Merge tables", script |-> "merge_tables.py", required |-> TRUE],
       [name |-> "Find duplicates", script |-> "compare_tables.py", required |-> TRUE],
       [name |-> "Verify merge", script |-> "compare_tables.py", required |-> TRUE] >>

OPTIONAL_PIPELINE_STEPS ==
    << [name |-> "Match Books vs Books1", script |-> "match_tables.py",
        required |-> FALSE],
       [name |-> "Match Journals vs OldJournals", script |-> "match_tables.py",
        required |-> FALSE] >>

\* The script files the steps name; each may be present in scripts_dir or not.
ScriptFiles == {"clean_csv.py", "merge_tables.py", "compare_tables.py", "match_tables.py"}

\* r.get('required', True) of a step or of a result dictionary.
get_required(r) == IF "required" \in DOMAIN r THEN r.required ELSE TRUE

\* The loop body without its break statements: every step is attempted.
execute_step_no_break(step, scripts, success, stop_on_error) ==
    IF step.script \notin scripts
    THEN [result |-> [step |-> step.name, success |-> FALSE,
                      error |-> "Script not found"],
          launched |-> FALSE, break |-> FALSE]
    ELSE [result |-> [step |-> step.name, success |-> success,
                      required |-> get_required(step)],
          launched |-> TRUE, break |-> FALSE]

\* One iteration of the loop of execute_pipeline on step, where scripts are
\* the files present in scripts_dir and success is what run_script returns
\* (the exit status of the child was 0): the dictionary appended to results,
\* whether the script was launched and whether the loop is left.
execute_step(step, scripts, success, stop_on_error) ==
    IF step.script \notin scripts
    THEN [result |-> [step |-> step.name, success |-> FALSE,
                      error |-> "Script not found"],
          launched |-> FALSE,
          break |-> stop_on_error /\ get_required(step)]
    ELSE [result |-> [step |-> step.name, success |-> success,
                      required |-> get_required(step)],
          launched |-> TRUE,
          break |-> ~success /\ stop_on_error /\ get_required(step)]

\* all(r['success'] for r in core_results if r.get('required', True))
core_success(results) ==
    \A i \in 1..Len(results) : get_required(results[i]) => results[i].success

\* print_results_summary(): the number of successful steps.
print_results_summary(results) ==
    Cardinality({i \in 1..Len(results) : results[i].success})

\* The exit status main() ends with.
exit_status(core_results, optional_results) ==
    LET all_results == core_results \o optional_results
        required_failed == \E i \in 1..Len(all_results) :
                               ~all_results[i].success /\ get_required(all_results[i])
    IN IF required_failed THEN 1
       ELSE IF print_results_summary(core_results) = Len(core_results) THEN 0
       ELSE 1

\* main() after argument parsing: the core steps are about to be executed.
PipelineStart(skip_matching, continue_on_error, scripts) ==
    [phase |-> "core", skip_matching |-> skip_matching,
     continue_on_error |-> continue_on_error, scripts |-> scripts, next |-> 1,
     core_results |-> <<>>, optional_results |-> <<>>, launched |-> <<>>,
     exit |-> -1]

PipeInit ==
    /\ family = "book_authors"
    /\ src = Sources(family, <<>>, EdgeLinks(family))
    /\ fs = [f \in FileNames |-> <<>>]
    /\ written = {}
    /\ status = [s \in Scripts |-> "not run"]
    /\ verdict = [v \in Validators |-> NotRun]
    /\ \E skip_matching \in BOOLEAN, continue_on_error \in BOOLEAN,
          scripts \in SUBSET ScriptFiles :
         pipe = PipelineStart(skip_matching, continue_on_error, scripts)
    /\ flat = NoFlatMerge

\* One step of execute_pipeline(CORE_PIPELINE_STEPS, stop_on_error = not
\* args.continue_on_error); when the loop ends main() decides on the optional
\* steps.
ExecuteCoreStep ==
    /\ pipe.phase = "core"
    /\ \E success \in BOOLEAN :
         LET step == CORE_PIPELINE_STEPS[pipe.next]
             r == execute_step(step, pipe.scripts, success, ~pipe.continue_on_error)
             results == Append(pipe.core_results, r.result)
             done == r.break \/ pipe.next = Len(CORE_PIPELINE_STEPS)
         IN pipe' = [pipe EXCEPT
                !.core_results = results,
                !.launched = IF r.launched THEN Append(@, step.name) ELSE @,
                !.next = IF done THEN 1 ELSE @ + 1,
                !.phase = IF ~done THEN "core"
                          ELSE IF ~pipe.skip_matching /\ core_success(results)
                          THEN "optional" ELSE "summary"]
    /\ UNCHANGED <<family, src, fs, written, status, verdict, flat>>

\* One step of execute_pipeline(OPTIONAL_PIPELINE_STEPS, stop_on_error = False).
ExecuteOptionalStep ==
    /\ pipe.phase = "optional"
    /\ \E success \in BOOLEAN :
         LET step == OPTIONAL_PIPELINE_STEPS[pipe.next]
             r == execute_step(step, pipe.scripts, success, FALSE)
             done == r.break \/ pipe.next = Len(OPTIONAL_PIPELINE_STEPS)
         IN pipe' = [pipe EXCEPT
                !.optional_results = Append(@, r.result),
                !.launched = IF r.launched THEN Append(@, step.name) ELSE @,
                !.next = IF done THEN 1 ELSE @ + 1,
                !.phase = IF done THEN "summary" ELSE "optional"]
    /\ UNCHANGED <<family, src, fs, written, status, verdict, flat>>

\* The summary of main() and its sys.exit().
PipelineExit ==
    /\ pipe.phase = "summary"
    /\ pipe' = [pipe EXCEPT !.phase = "exited",
                            !.exit = exit_status(pipe.core_results, pipe.optional_results)]
    /\ UNCHANGED <<family, src, fs, written, status, verdict, flat>>

PipeNext ==
    \/ ExecuteCoreStep
    \/ ExecuteOptionalStep
    \/ PipelineExit

\* One run of run_pipline.py, for every choice of its two flags, of the
\* scripts present and of the exit status of each child process.
PipeSpec == PipeInit /\ [][PipeNext]_vars

\* --------------------------------------- merge_tables.py, verify_merged.py
\* A CSV file is a record [exists, cols, rows]: its columns and, row by row,
\* the text of every cell.  A data frame has the same shape.
NoFile == [exists |-> FALSE, cols |-> {}, rows |-> <<>>]

\* The texts a cell of a source table can hold.
FlatCells == {EmptyStr, <<"x">>, <<"X", " ">>, <<"N", "u", "l", "l">>}

\* The columns of the table in each source: db1 has a column db2 lacks.
FlatColumns == [db1 |-> {"A", "B"}, db2 |-> {"A"}]

FlatFiles(db) ==
    {NoFile} \cup {[exists |-> TRUE, cols |-> FlatColumns[db], rows |-> r] :
                       r \in SeqsUpTo([FlatColumns[db] -> FlatCells], FlatRows)}

\* normalize_value(v)
normalize_value(v) ==
    IF isna(v) THEN EmptyStr
    ELSE lower(strip([i \in 1..Len(v) |-> IF v[i] \in {"\r", "\n"} THEN " " ELSE v[i]]))

\* pd.read_csv(path, dtype=str): the text of a cell, or NaN for an NA text.
read_csv(file) ==
    [file EXCEPT !.rows = [i \in 1..Len(file.rows) |->
                              [c \in file.cols |-> read_csv_cell(file.rows[i][c])]]]

\* normalize_df(df)
normalize_df(df) ==
    [df EXCEPT !.rows = [i \in 1..Len(df.rows) |->
                            [c \in df.cols |-> normalize_value(df.rows[i][c])]]]

\* load_csv(path, normalize=True)
load_csv(file) == normalize_df(read_csv(file))

\* One frame of align_columns(dfs) for the union all_cols of the columns: a
\* column the frame lacks is filled with empty strings.
align_frame(df, all_cols) ==
    [df EXCEPT !.cols = all_cols,
               !.rows = [i \in 1..Len(df.rows) |->
                            [c \in all_cols |-> IF c \in df.cols THEN df.rows[i][c]
                                                ELSE EmptyStr]]]

\* DataFrame.drop_duplicates(): the first of the equal rows, in order.
drop_duplicate_rows(rows) ==
    LET first(i) == \A j \in 1..(i - 1) : rows[j] # rows[i]
        RECURSIVE go(_)
        go(i) == IF i > Len(rows) THEN <<>>
                 ELSE (IF first(i) THEN <<rows[i]>> ELSE <<>>) \o go(i + 1)
    IN go(1)

\* The frames merge_table loads: the tables of the sources that have the file.
flat_dfs(file1, file2) ==
    (IF file1.exists THEN <<load_csv(file1)>> ELSE <<>>)
        \o (IF file2.exists THEN <<load_csv(file2)>> ELSE <<>>)

\* The frame merge_table builds from its frames (there is at least one).
merged_frame(dfs) ==
    IF Len(dfs) = 1 THEN dfs[1]
    ELSE LET all_cols == dfs[1].cols \cup dfs[2].cols
         IN [exists |-> TRUE, cols |-> all_cols,
             rows |-> drop_duplicate_rows(align_frame(dfs[1], all_cols).rows
                                              \o align_frame(dfs[2], all_cols).rows)]

\* find_missing_rows(source_df, target_df): the distinct rows of source, on
\* the common columns, that no row of target equals.
find_missing_rows(source_df, target_df) ==
    LET common == source_df.cols \cap target_df.cols
        tuple(r) == [c \in common |-> r[c]]
        target_rows == {tuple(target_df.rows[i]) : i \in 1..Len(target_df.rows)}
    IN Cardinality({tuple(source_df.rows[i]) : i \in 1..Len(source_df.rows)} \ target_rows)

\* The missing_rows verify_table reports for a source file and the merged
\* file, both present.
verify_table(source_file, merged_file) ==
    LET source_df == load_csv(source_file)
        merged_df == load_csv(merged_file)
        all_cols == source_df.cols \cup merged_df.cols
    IN find_missing_rows(align_frame(source_df, all_cols), align_frame(merged_df, all_cols))

\* The table is in db1 and db2 as chosen; nothing is merged or verified yet.
FlatStart(file1, file2) ==
    [phase |-> "run", db1 |-> file1, db2 |-> file2, merged |-> NoFile,
     ok |-> FALSE, missing_rows |-> [db1 |-> -1, db2 |-> -1]]

FlatInit ==
    /\ family = "book_authors"
    /\ src = Sources(family, <<>>, EdgeLinks(family))
    /\ fs = [f \in FileNames |-> <<>>]
    /\ written = {}
    /\ status = [s \in Scripts |-> "not run"]
    /\ verdict = [v \in Validators |-> NotRun]
    /\ pipe = NoPipeline
    /\ \E file1 \in FlatFiles("db1"), file2 \in FlatFiles("db2") :
         flat = FlatStart(file1, file2)

\* merge_table(table_name, db1_path, db2_path, output_path): returns False
\* when neither source has the table or to_csv raises, else writes the merged
\* frame and returns True.
MergeTable ==
    /\ flat.phase = "run"
    /\ \E saved \in BOOLEAN :
         LET dfs == flat_dfs(flat.db1, flat.db2)
         IN flat' = IF dfs = <<>> \/ ~saved
                    THEN [flat EXCEPT !.ok = FALSE]
                    ELSE [flat EXCEPT !.ok = TRUE, !.merged = merged_frame(dfs)]
    /\ UNCHANGED <<family, src, fs, written, status, verdict, pipe>>

\* verify_table(table_name, source_path, merged_path, source_label) for one
\* source: without the source file or the merged file nothing is counted.
VerifyTable ==
    /\ flat.phase = "run"
    /\ \E db \in {"db1", "db2"} :
         /\ flat[db].exists
         /\ flat.merged.exists
         /\ flat' = [flat EXCEPT !.missing_rows[db] = verify_table(flat[db], flat.merged)]
    /\ UNCHANGED <<family, src, fs, written, status, verdict, pipe>>

FlatNext ==
    \/ MergeTable
    \/ VerifyTable

\* The flat merge of one table and its verification against both sources.
FlatSpec == FlatInit /\ [][FlatNext]_vars

\* ------------------------------------------------- the four families
\* The files and columns of each merge script.
CanonFile == [book_authors_merge |-> "BOOK_AUTHORS.csv", book_topic_merge |-> "BOOK_TOPIC.csv",
              pauthors_merge |-> "PAUTHORS.csv", papers_merge |-> "PAPERS.csv"]

MapFile == [book_authors_merge |-> "author_id_mapping.csv",
            book_topic_merge |-> "topic_id_mapping.csv",
            pauthors_merge |-> "pauthor_id_mapping.csv",
            papers_merge |-> "paper_id_mapping.csv"]

MetaFile == [book_authors_merge |-> "book_authors_migration_metadata.csv",
             book_topic_merge |-> "book_topic_migration_metadata.csv",
             pauthors_merge |-> "pauthors_migration_metadata.csv",
             papers_merge |-> "papers_migration_metadata.csv"]

OldId == [book_authors_merge |-> "old_author_id", book_topic_merge |-> "old_topic_id",
          pauthors_merge |-> "old_author_id", papers_merge |-> "old_paper_id"]

NewId == [book_authors_merge |-> "new_book_author_id",
          book_topic_merge |-> "new_book_topic_id",
          pauthors_merge |-> "new_author_id", papers_merge |-> "new_paper_id"]

\* The scripts that enrich a link table, the table, its foreign key, the
\* enriched file of each source and the column that holds the resolved value.
LinkScripts == {"book_authors_merge", "book_topic_merge", "pauthors_merge"}

LinkTable == [book_authors_merge |-> "BookAuthors", book_topic_merge |-> "BookTopic",
              pauthors_merge |-> "PapersAuthors"]

ForeignKey == [book_authors_merge |-> "AuthorID", book_topic_merge |-> "TopicID",
               pauthors_merge |-> "AuthorID"]

EnrichedFile ==
    [book_authors_merge |-> [db1 |-> "book_authors_enriched_db1.csv",
                             db2 |-> "book_authors_enriched_db2.csv"],
     book_topic_merge |-> [db1 |-> "book_topic_enriched_db1.csv",
                           db2 |-> "book_topic_enriched_db2.csv"],
     pauthors_merge |-> [db1 |-> "papers_authors_enriched_db1.csv",
                         db2 |-> "papers_authors_enriched_db2.csv"]]

Resolved == [book_authors_merge |-> "new_book_author_id", book_topic_merge |-> "TopicName",
             pauthors_merge |-> "new_author_id"]

\* The key of a row with no identity: every component blank.
EmptyKey(script) == IF script = "book_topic_merge" THEN EmptyStr ELSE EmptyNameKey

\* The last run of the script wrote all its files.
Merged(script) == status[script] = "ok"

\* (source, original id, key) of rows that carry source_db, the id column and key.
Keyed(rows, id) ==
    [i \in 1..Len(rows) |->
        [source_db |-> rows[i].source_db, old_id |-> rows[i][id], key |-> rows[i].key]]

\* Every row of the entity tables of both sources with its canonical key, as
\* the script computes the key.
RawRows(script) ==
    CASE script = "book_authors_merge" ->
           Keyed([i \in 1..Len(Table("db1", "Authors")) |->
                     process_names(Table("db1", "Authors")[i], "db1")]
                 \o [i \in 1..Len(Table("db2", "Authors")) |->
                        process_names(Table("db2", "Authors")[i], "db2")], "AuthorID")
      [] script = "pauthors_merge" ->
           Keyed([i \in 1..Len(Table("db1", "PAuthors")) |->
                     pauthors_process_names(Table("db1", "PAuthors")[i], "db1")]
                 \o [i \in 1..Len(Table("db2", "PAuthors")) |->
                        pauthors_process_names(Table("db2", "PAuthors")[i], "db2")],
                 "AuthorID")
      [] script = "book_topic_merge" ->
           Keyed(topic_rows(Table("db1", "Topic"), "db1")
                 \o topic_rows(Table("db2", "Topic"), "db2"), "TopicID")
      [] script = "papers_merge" ->
           Keyed(paper_columns(Table("db1", "Papers"), "db1", <<>>)
                 \o paper_columns(Table("db2", "Papers"), "db2", <<>>), "PaperID")

\* The rows a run of the script keeps for deduplication: the accepted rows.
KeptRows(script) ==
    CASE script = "book_authors_merge" -> Keyed(ba_load.a1 \o ba_load.a2, "AuthorID")
      [] script = "pauthors_merge" -> Keyed(pa_load.pa1 \o pa_load.pa2, "AuthorID")
      [] script = "book_topic_merge" ->
           SelectRows(RawRows(script), LAMBDA r : r.key # EmptyStr)
      [] script = "papers_merge" -> Keyed(papers_all.all_papers, "PaperID")

\* The rows of the canonical table with the key of each, recomputed from the
\* row the way the script computes the key of a source row.
CanonRows(script) ==
    CASE script = "book_authors_merge" ->
           [i \in 1..Len(fs["BOOK_AUTHORS.csv"]) |->
               [id |-> fs["BOOK_AUTHORS.csv"][i].book_author_id,
                key |-> Join2(lower(fs["BOOK_AUTHORS.csv"][i].first_name), "|",
                              lower(fs["BOOK_AUTHORS.csv"][i].last_name))]]
      [] script = "pauthors_merge" ->
           [i \in 1..Len(fs["PAUTHORS.csv"]) |->
               [id |-> fs["PAUTHORS.csv"][i].author_id,
                key |-> Join2(lower(fs["PAUTHORS.csv"][i].first_name), "|",
                              lower(fs["PAUTHORS.csv"][i].last_name))]]
      [] script = "book_topic_merge" ->
           [i \in 1..Len(fs["BOOK_TOPIC.csv"]) |->
               [id |-> fs["BOOK_TOPIC.csv"][i].book_topic_id,
                key |-> normalize_topic_name(fs["BOOK_TOPIC.csv"][i].topic_name)]]
      [] script = "papers_merge" ->
           [i \in 1..Len(fs["PAPERS.csv"]) |->
               [id |-> fs["PAPERS.csv"][i].paper_id,
                key |-> Join2(normalize_title(fs["PAPERS.csv"][i].title), "|",
                              norm_year(fs["PAPERS.csv"][i].year))]]

\* Every original display field of a mapping row is blank.
BlankDisplay(script, m) ==
    CASE script = "book_authors_merge" ->
           /\ clean_str(m.old_first_name) = EmptyStr
           /\ clean_str(m.old_middle_name) = EmptyStr
           /\ clean_str(m.old_last_name) = EmptyStr
      [] script = "pauthors_merge" ->
           clean_str(m.old_first_name) = EmptyStr /\ clean_str(m.old_last_name) = EmptyStr
      [] script = "book_topic_merge" -> clean_str(m.old_topic_name) = EmptyStr
      [] script = "papers_merge" -> clean_str(m.old_title) = EmptyStr

\* The rows of the mapping file: source, original id, canonical id.
MappingRows(script) ==
    [i \in 1..Len(fs[MapFile[script]]) |->
        [source_db |-> fs[MapFile[script]][i].source_db,
         old_id |-> fs[MapFile[script]][i][OldId[script]],
         new_id |-> fs[MapFile[script]][i][NewId[script]],
         blank |-> BlankDisplay(script, fs[MapFile[script]][i])]]

\* The numbers the metadata record of a link script holds for one source; a
\* number the record does not hold is absent.
LinkCounts(meta, db) ==
    IF db = "db1"
    THEN [incomplete |-> meta.skipped_incomplete_db1, enriched |-> meta.enriched_db1_rows,
          has_orphan |-> "orphaned_db1" \in DOMAIN meta,
          orphan |-> IF "orphaned_db1" \in DOMAIN meta THEN meta.orphaned_db1 ELSE 0]
    ELSE [incomplete |-> meta.skipped_incomplete_db2, enriched |-> meta.enriched_db2_rows,
          has_orphan |-> "orphaned_db2" \in DOMAIN meta,
          orphan |-> IF "orphaned_db2" \in DOMAIN meta THEN meta.orphaned_db2 ELSE 0]

\* The foreign key is null, empty after trimming, or one of the sentinel
\* strings "nan", "none", "null" in any case.
SentinelFK(v) ==
    \/ isna(v)
    \/ strip(v) = EmptyStr
    \/ lower(strip(v)) \in { <<"n", "a", "n">>, <<"n", "o", "n", "e">>, <<"n", "u", "l", "l">> }

\* The mapping holds an entry of source db for original id fk.
HasEntry(mapping, db, fk) ==
    \E m \in 1..Len(mapping) : mapping[m].source_db = db /\ mapping[m].old_id = fk

\* ------------------------------------------------------------ properties
\* The id assignment a mapping file records: (source, original id, canonical id).
Assignment(mapping, old, new) ==
    {<<mapping[i].source_db, mapping[i][old], mapping[i][new]>> : i \in 1..Len(mapping)}

\* C1: in each of the four families, running the merge twice on unchanged
\* input assigns the same canonical id to every (source, original id) pair:
\* the id assignment of a run equals the assignment of the run before it.
C1_SameIdsOnRerun ==
    [][\A s \in Scripts :
          (Merged(s) /\ status'[s] = "ok") =>
              Assignment(fs'[MapFile[s]], OldId[s], NewId[s])
                = Assignment(fs[MapFile[s]], OldId[s], NewId[s])]_vars

\* Two accepted rows with one key have exactly one canonical entity, and each
\* has a mapping row of its own that references the id of that entity.
OneEntityPerKey(kept, canon, mapping) ==
    \A i, j \in 1..Len(kept) :
        (i # j /\ kept[i].key = kept[j].key) =>
            /\ Cardinality({c \in 1..Len(canon) : canon[c].key = kept[i].key}) = 1
            /\ \E mi, mj \in 1..Len(mapping) :
                 /\ mi # mj
                 /\ mapping[mi].source_db = kept[i].source_db
                 /\ mapping[mi].old_id = kept[i].old_id
                 /\ mapping[mj].source_db = kept[j].source_db
                 /\ mapping[mj].old_id = kept[j].old_id
                 /\ \E c \in 1..Len(canon) :
                      /\ canon[c].key = kept[i].key
                      /\ mapping[mi].new_id = canon[c].id
                      /\ mapping[mj].new_id = canon[c].id

BothLinked ==
    Table("db1", LinkTableOf[family]) # <<>> /\ Table("db2", LinkTableOf[family]) # <<>>

DistinctKeys(rows, empty) == {rows[i].key : i \in 1..Len(rows)} \ {empty}

MappingComplete(accepted, canon, mapping) ==
    /\ Len(mapping) = Len(accepted)
    /\ \A m \in 1..Len(mapping) : \E c \in 1..Len(canon) : mapping[m].new_id = canon[c].id
    /\ \A i \in 1..Len(accepted) :
         Cardinality({m \in 1..Len(mapping) :
                         /\ mapping[m].source_db = accepted[i].source_db
                         /\ mapping[m].old_id = accepted[i].old_id})
           = Cardinality({j \in 1..Len(accepted) :
                             /\ accepted[j].source_db = accepted[i].source_db
                             /\ accepted[j].old_id = accepted[i].old_id})

\* The source rows with a non-empty canonical key.
WithKey(script) == SelectRows(RawRows(script), LAMBDA r : r.key # EmptyKey(script))

\* C4: after every merge, every accepted source record (non-empty canonical
\* key) has exactly one mapping row tagged with its own source, the canonical
\* id of every mapping row is the id of a row of the canonical table, and the
\* number of mapping rows equals the number of accepted source records.
C4_MappingComplete ==
    \A s \in Scripts :
        Merged(s) => MappingComplete(WithKey(s), CanonRows(s), MappingRows(s))

\* C5: for the link table of every source and every input, the enriched rows
\* plus the rows counted incomplete plus the rows counted orphan are as many
\* as the rows of the original link table.
C5_LinkRowsAccounted ==
    \A s \in LinkScripts : \A db \in {"db1", "db2"} :
        Merged(s) =>
            Len(fs[EnrichedFile[s][db]])
              + LinkCounts(fs[MetaFile[s]], db).incomplete
              + LinkCounts(fs[MetaFile[s]], db).orphan
            = Len(Table(db, LinkTable[s]))

\* The accepted totals of the metadata record: the accepted rows of both
\* sources where the record holds them, and the number of id mappings.
AcceptedTotals(script, meta) ==
    CASE script = "book_authors_merge" ->
           {meta.source_db1_authors + meta.source_db2_authors, meta.id_mappings}
      [] script = "pauthors_merge" ->
           {meta.source_db1_pauthors + meta.source_db2_pauthors, meta.id_mappings}
      [] script = "book_topic_merge" -> {meta.id_mappings}
      [] script = "papers_merge" ->
           {meta.valid_db1_papers + meta.valid_db2_papers, meta.id_mappings}

\* C6: in every family, a source row whose key fields are all blank produces
\* no canonical entity and no mapping row, and is not counted in the accepted
\* totals of the metadata: no canonical row has the empty key, no mapping row
\* has blank display fields, and no accepted total exceeds the number of
\* source rows that have a key.
C6_BlankRowsExcluded ==
    \A s \in Scripts :
        Merged(s) =>
            /\ \A c \in 1..Len(CanonRows(s)) : CanonRows(s)[c].key # EmptyKey(s)
            /\ \A m \in 1..Len(MappingRows(s)) : ~MappingRows(s)[m].blank
            /\ \A n \in AcceptedTotals(s, fs[MetaFile[s]]) : n <= Len(WithKey(s))

\* C7: no loss: every canonical key recomputed from the raw source rows that
\* has a non-empty component (for papers: normalized title, normalized year)
\* is the key of a canonical entity.
C7_NoLoss ==
    \A s \in Scripts :
        Merged(s) =>
            DistinctKeys(RawRows(s), EmptyKey(s))
              \subseteq {CanonRows(s)[c].key : c \in 1..Len(CanonRows(s))}

\* C8: in every link enrichment, the link rows whose foreign key is null,
\* empty or "nan" / "none" / "null" in any case are the rows counted
\* incomplete; none of them is in the enriched output and none is counted
\* orphan (the orphans are at most the other rows that are not enriched).
C8_SentinelsIncomplete ==
    \A s \in LinkScripts : \A db \in {"db1", "db2"} :
        Merged(s) =>
            /\ LinkCounts(fs[MetaFile[s]], db).incomplete
                 = CountRows(Table(db, LinkTable[s]), LAMBDA r : SentinelFK(r[ForeignKey[s]]))
            /\ \A i \in 1..Len(fs[EnrichedFile[s][db]]) :
                 ~SentinelFK(fs[EnrichedFile[s][db]][i][ForeignKey[s]])
            /\ LinkCounts(fs[MetaFile[s]], db).orphan
                 <= CountRows(Table(db, LinkTable[s]),
                              LAMBDA r : /\ ~SentinelFK(r[ForeignKey[s]])
                                         /\ ~HasEntry(MappingRows(s), db, r[ForeignKey[s]]))

\* C9: in every link enrichment of every family, the link rows whose foreign
\* key is not a sentinel and has no mapping entry of the source are not in the
\* enriched output, and the metadata records an orphan count that counts each
\* of them.
C9_OrphansDroppedAndCounted ==
    \A s \in LinkScripts : \A db \in {"db1", "db2"} :
        Merged(s) =>
            /\ \A i \in 1..Len(fs[EnrichedFile[s][db]]) :
                 HasEntry(MappingRows(s), db, fs[EnrichedFile[s][db]][i][ForeignKey[s]])
            /\ LinkCounts(fs[MetaFile[s]], db).has_orphan
            /\ LinkCounts(fs[MetaFile[s]], db).orphan
                 >= CountRows(Table(db, LinkTable[s]),
                              LAMBDA r : /\ ~SentinelFK(r[ForeignKey[s]])
                                         /\ ~HasEntry(MappingRows(s), db, r[ForeignKey[s]]))

\* C10: every row of every enriched link table a merge wrote carries a
\* resolved value (new_book_author_id, new_author_id, TopicName) that is
\* neither missing nor empty.
C10_EnrichedRowsResolved ==
    \A s \in LinkScripts : \A db \in {"db1", "db2"} :
        EnrichedFile[s][db] \in written =>
            \A i \in 1..Len(fs[EnrichedFile[s][db]]) :
                /\ ~isna(fs[EnrichedFile[s][db]][i][Resolved[s]])
                /\ strip(fs[EnrichedFile[s][db]][i][Resolved[s]]) # EmptyStr

\* normalize_field of the specification: null is the empty string; else trim,
\* fold every run of blanks inside to one blank, fold the case.
normalize_field(v) == IF isna(v) THEN EmptyStr ELSE lower(collapse_ws(strip(v)))

\* The fields of a source table the canonical key is built from.
KeyFields ==
    [book_authors_merge |-> <<"FirstName", "MiddleName", "LastName">>,
     book_topic_merge |-> <<"Topic">>,
     pauthors_merge |-> <<"FirstName", "LastName">>,
     papers_merge |-> <<"Title", "Year">>]

\* The rows of the entity tables of both sources, db1 first: the order of RawRows.
RawTable(script) ==
    CASE script = "book_authors_merge" -> Table("db1", "Authors") \o Table("db2", "Authors")
      [] script = "pauthors_merge" -> Table("db1", "PAuthors") \o Table("db2", "PAuthors")
      [] script = "book_topic_merge" -> Table("db1", "Topic") \o Table("db2", "Topic")
      [] script = "papers_merge" -> Table("db1", "Papers") \o Table("db2", "Papers")

\* Two rows differ in no key field by more than letter case, blanks around the
\* value and the length of the runs of blanks inside it.
SameSpelling(script, a, b) ==
    \A f \in 1..Len(KeyFields[script]) :
        normalize_field(a[KeyFields[script][f]]) = normalize_field(b[KeyFields[script][f]])

\* C11: in every family, two source rows whose key fields differ only in
\* letter case, blanks around the value or the length of runs of blanks inside
\* it have equal canonical keys and at most one canonical entity between them.
C11_SpellingVariantsMerge ==
    \A s \in Scripts :
        Merged(s) =>
            \A i, j \in 1..Len(RawTable(s)) :
                SameSpelling(s, RawTable(s)[i], RawTable(s)[j]) =>
                    /\ RawRows(s)[i].key = RawRows(s)[j].key
                    /\ Cardinality({c \in 1..Len(CanonRows(s)) :
                                       CanonRows(s)[c].key
                                         \in {RawRows(s)[i].key, RawRows(s)[j].key}}) <= 1

\* Rows with final names, each with the display fields the canonical table
\* shows when the row wins.
NameDisplay(rows) ==
    [i \in 1..Len(rows) |->
        [source_db |-> rows[i].source_db, key |-> rows[i].key,
         display |-> <<rows[i].final_first_name, rows[i].final_last_name>>]]

\* Likewise for topic rows.
TopicDisplay(rows) ==
    [i \in 1..Len(rows) |->
        [source_db |-> rows[i].source_db, key |-> rows[i].key,
         display |-> <<rows[i].Topic>>]]

\* Likewise for paper rows: the scalar fields.
PaperDisplay(rows) ==
    [i \in 1..Len(rows) |->
        [source_db |-> rows[i].source_db, key |-> rows[i].key,
         display |-> <<rows[i].Title, rows[i].Abstract, rows[i].Year,
                       parse_bool(rows[i].SoftCopy)>>]]

\* The rows a run keeps for deduplication, in the order of KeptRows, each with
\* the display fields the canonical table shows when the row wins.
KeptDisplay(script) ==
    CASE script = "book_authors_merge" -> NameDisplay(ba_load.a1 \o ba_load.a2)
      [] script = "pauthors_merge" -> NameDisplay(pa_load.pa1 \o pa_load.pa2)
      [] script = "book_topic_merge" ->
           TopicDisplay(SelectRows(topic_rows(Table("db1", "Topic"), "db1")
                                   \o topic_rows(Table("db2", "Topic"), "db2"),
                                   LAMBDA r : r.key # EmptyStr))
      [] script = "papers_merge" -> PaperDisplay(papers_all.all_papers)

\* The display fields (for papers: the scalar fields) of the rows of the
\* canonical table, in the order of CanonRows.
CanonDisplay(script) ==
    CASE script = "book_authors_merge" ->
           [i \in 1..Len(fs["BOOK_AUTHORS.csv"]) |->
               <<fs["BOOK_AUTHORS.csv"][i].first_name, fs["BOOK_AUTHORS.csv"][i].last_name>>]
      [] script = "pauthors_merge" ->
           [i \in 1..Len(fs["PAUTHORS.csv"]) |->
               <<fs["PAUTHORS.csv"][i].first_name, fs["PAUTHORS.csv"][i].last_name>>]
      [] script = "book_topic_merge" ->
           [i \in 1..Len(fs["BOOK_TOPIC.csv"]) |-> <<fs["BOOK_TOPIC.csv"][i].topic_name>>]
      [] script = "papers_merge" ->
           [i \in 1..Len(fs["PAPERS.csv"]) |->
               <<fs["PAPERS.csv"][i].title, fs["PAPERS.csv"][i].abstract,
                 fs["PAPERS.csv"][i].year, fs["PAPERS.csv"][i].soft_copy>>]

\* The canonical entity of key k with display fields d takes them from a db1
\* row of its group, or from a db2 row when the group has no db1 row.
WinnerByPrecedence(kept, k, d) ==
    \E r \in 1..Len(kept) :
        /\ kept[r].key = k
        /\ kept[r].display = d
        /\ \/ kept[r].source_db = "db1"
           \/ \A o \in 1..Len(kept) : kept[o].key = k => kept[o].source_db = "db2"

\* Every canonical entity takes its display fields by precedence.
AllByPrecedence(kept, canon, display) ==
    \A c \in 1..Len(canon) : WinnerByPrecedence(kept, canon[c].key, display[c])

MixedGroup(kept) ==
    \E i, j \in 1..Len(kept) :
        /\ kept[i].key = kept[j].key
        /\ kept[i].source_db = "db1"
        /\ kept[j].source_db = "db2"
        /\ kept[i].display # kept[j].display

DisplayByKey(script) ==
    {<<CanonRows(script)[i].key, CanonDisplay(script)[i]>> : i \in 1..Len(CanonRows(script))}

\* C13: permuting the rows inside an entity table of one source does not
\* change the display fields of any canonical entity: a run of a merge on
\* sources that hold the rows of the previous run, in whatever order, gives
\* every canonical key the display fields the previous run gave it.
C13_WinnerIgnoresArrivalOrder ==
    [][\A s \in Scripts :
          (Merged(s) /\ status'[s] = "ok") => DisplayByKey(s)' = DisplayByKey(s)]_vars

\* The ids of a rendered authors_ids array, in order.
ArrayIds(x) == [i \in 1..((Len(x) - 1) \div 2) |-> x[2 * i]]

\* The enriched PapersAuthors rows of both sources, each with its source.
EnrichedLinks ==
    [i \in 1..Len(fs["papers_authors_enriched_db1.csv"]) |->
        [source_db |-> "db1", PaperID |-> fs["papers_authors_enriched_db1.csv"][i].PaperID,
         new_author_id |-> fs["papers_authors_enriched_db1.csv"][i].new_author_id]]
    \o [i \in 1..Len(fs["papers_authors_enriched_db2.csv"]) |->
        [source_db |-> "db2", PaperID |-> fs["papers_authors_enriched_db2.csv"][i].PaperID,
         new_author_id |-> fs["papers_authors_enriched_db2.csv"][i].new_author_id]]

\* The canonical author ids on the enriched link rows of the members of the
\* group of key k: the rows of a member's own source with the member's PaperID.
GroupAuthors(kept, links, k) ==
    {links[l].new_author_id :
        l \in {x \in 1..Len(links) :
                 /\ ~isna(links[x].new_author_id)
                 /\ \E m \in 1..Len(kept) :
                        /\ kept[m].key = k
                        /\ kept[m].source_db = links[x].source_db
                        /\ strip(kept[m].old_id) = strip(links[x].PaperID)}}

\* Every array of the canonical papers holds the ids of its group, each once.
ArraysComplete(kept, links, canon, papers) ==
    \A c \in 1..Len(papers) :
        /\ Range(ArrayIds(papers[c].authors_ids)) = GroupAuthors(kept, links, canon[c].key)
        /\ Cardinality(Range(ArrayIds(papers[c].authors_ids)))
             = Len(ArrayIds(papers[c].authors_ids))

\* C14: the authors_ids array of every canonical paper holds exactly the
\* canonical author ids found on the enriched PapersAuthors rows of every
\* member of its dedup group, each id exactly once.
C14_AuthorsOfEveryMember ==
    Merged("papers_merge") =>
        ArraysComplete(KeptRows("papers_merge"), EnrichedLinks, CanonRows("papers_merge"),
                       fs["PAPERS.csv"])

\* A canonical paper merged from a db1 row and a db2 row carries two author
\* ids, one found on the links of each member.
C14_Witness ==
    /\ Merged("papers_merge")
    /\ \E c \in 1..Len(fs["PAPERS.csv"]) :
          /\ Len(ArrayIds(fs["PAPERS.csv"][c].authors_ids)) = 2
          /\ \E l, m \in 1..Len(EnrichedLinks) :
                /\ EnrichedLinks[l].source_db = "db1"
                /\ EnrichedLinks[m].source_db = "db2"
                /\ {EnrichedLinks[l].new_author_id, EnrichedLinks[m].new_author_id}
                     = Range(ArrayIds(fs["PAPERS.csv"][c].authors_ids))

\* The authors_ids array of each canonical paper.
ArrayByPaper ==
    {<<fs["PAPERS.csv"][i].paper_id, fs["PAPERS.csv"][i].authors_ids>> :
        i \in 1..Len(fs["PAPERS.csv"])}

\* C15: the authors_ids array of a canonical paper does not depend on the
\* order of the input rows: a run of papers_merge on sources that hold the rows
\* of the previous run, in whatever order, gives every canonical paper the
\* array of the previous run, the same ids in the same order.
C15_ArrayIgnoresRowOrder ==
    [][(Merged("papers_merge") /\ status'["papers_merge"] = "ok")
          => ArrayByPaper' = ArrayByPaper]_vars

\* The families whose canonical ids are uuid5 values.
DeterministicScripts == {"pauthors_merge", "papers_merge"}

\* The canonical id of each non-empty canonical key.
IdByKey(script) ==
    {<<CanonRows(script)[i].key, CanonRows(script)[i].id>> :
        i \in {c \in 1..Len(CanonRows(script)) : CanonRows(script)[c].key # EmptyKey(script)}}

\* C16: in the deterministic families the canonical id is a function of the
\* namespace and the canonical key only: a run on sources that hold the rows of
\* the previous run in another order, so that a dedup group may have another
\* winning row, gives every non-empty canonical key the id the previous run
\* gave it.
C16_ContentAddressedIds ==
    [][\A s \in DeterministicScripts :
          (Merged(s) /\ status'[s] = "ok") => IdByKey(s)' = IdByKey(s)]_vars

\* No two rows of a canonical table share the id or the key.
NoDuplicates(canon) ==
    \A i, j \in 1..Len(canon) :
        i # j => (canon[i].id # canon[j].id /\ canon[i].key # canon[j].key)

\* C17: in every canonical entity table a merge produced, no two rows have
\* the same canonical id and no two rows have the same canonical key.
C17_NoDuplicateIdsOrKeys ==
    \A s \in Scripts : Merged(s) => NoDuplicates(CanonRows(s))

\* The spellings of true.
TrueSpellings == {<<"1">>, <<"t", "r", "u", "e">>, <<"y", "e", "s">>, <<"-", "1">>}

\* The source value of the boolean column of the winner of the group of key
\* k: that of the first kept row with the key.
WinnerSoftCopy(kept, k) ==
    kept[CHOOSE r \in 1..Len(kept) :
            kept[r].key = k /\ \A o \in 1..(r - 1) : kept[o].key # k].SoftCopy

\* The boolean column of every canonical paper is true exactly when the
\* value of the winner, trimmed and lower-cased, is a spelling of true.
CoercedByWinner(kept, canon, papers) ==
    \A c \in 1..Len(papers) :
        papers[c].soft_copy
          = (/\ ~isna(WinnerSoftCopy(kept, canon[c].key))
             /\ lower(strip(WinnerSoftCopy(kept, canon[c].key))) \in TrueSpellings)

\* C18: a boolean column of a canonical paper is true exactly when the source
\* value of the winner row, trimmed and compared case-insensitively, is one of
\* "1", "true", "yes", "-1"; every other value, blank and missing included,
\* gives false.
C18_BooleanCoercion ==
    Merged("papers_merge") =>
        CoercedByWinner(papers_all.all_papers, CanonRows("papers_merge"), fs["PAPERS.csv"])

\* The canonical table has a true whose source value is a spelling of true
\* only once trimmed and lower-cased, and a false whose source value is missing
\* or blank.
BooleanCases(kept, canon, papers) ==
    /\ \E c \in 1..Len(papers) :
          /\ papers[c].soft_copy
          /\ WinnerSoftCopy(kept, canon[c].key) \notin TrueSpellings
    /\ \E c \in 1..Len(papers) :
          /\ ~papers[c].soft_copy
          /\ WinnerSoftCopy(kept, canon[c].key) \in {NaN, <<" ">>}

C18_Witness ==
    /\ Merged("papers_merge")
    /\ BooleanCases(papers_all.all_papers, CanonRows("papers_merge"), fs["PAPERS.csv"])

\* The source tables a validator reads.
SourceFiles == {"db1/Authors.csv", "db2/Authors.csv"}

\* Exactly one source has no rows in table t: the table may be absent there.
LacksOne(t) == (Table("db1", t) = <<>>) # (Table("db2", t) = <<>>)

\* C19: a table that is absent for one source counts as an empty table and is
\* no error, for the validator as for the merge: when exactly one source lacks
\* the entity table, a validator that finds every output of the merge runs its
\* checks, it never ends on the missing source table.
C19_AbsentTableIsEmpty ==
    (BothLinked /\ LacksOne("Authors")) =>
        \A v \in Validators : verdict[v].missing \notin SourceFiles

\* The output files of each script.
FilesOf(script) == {WriteOrder[script][i] : i \in 1..Len(WriteOrder[script])}

\* C20: a merge whose write of any one output fails has written no canonical
\* table: no state holds the canonical table of an entity type while another
\* output of its merge is missing.
C20_AllOrNothing ==
    \A s \in Scripts : CanonFile[s] \in written => FilesOf(s) \subseteq written

\* C21: the validators are read-only: a run of any of the three validators,
\* whatever its verdict, leaves every source table and every merge output
\* (canonical table, mapping, enriched tables, metadata) as it was.
C21_ValidatorReadOnly == [][verdict' # verdict => UNCHANGED <<src, fs, written>>]_vars

\* A validator has found fault with merge outputs that are on disk.
C21_Witness ==
    \E c \in Validators : verdict[c].ran /\ verdict[c].failed > 0 /\ written # {}

\* The merge script whose outputs a validator checks.
MergeOf == [check_book_authors_merge |-> "book_authors_merge",
            check_book_topic_merge |-> "book_topic_merge",
            check_papers_merge |-> "papers_merge"]

\* The canonical table of the script holds an entity whose key no row of the
\* sources has.
Untraceable(script) ==
    \E c \in 1..Len(CanonRows(script)) :
        /\ CanonRows(script)[c].key # EmptyKey(script)
        /\ \A r \in 1..Len(RawRows(script)) :
              RawRows(script)[r].key # CanonRows(script)[c].key

\* C22: a validator ends with exit status 0 exactly when none of its checks
\* failed (a missing file counts as a failure); and when the canonical table
\* holds an entity untraceable to any source row while no check other than the
\* comparison of the row count with the number of source entities fails, the
\* validator warns and ends with exit status 0.
C22_UntraceableOnlyWarns ==
    [][\A v \in Validators :
          verdict'[v] # verdict[v] =>
              /\ (verdict'[v].exit = 0)
                   = (verdict'[v].failed = 0 /\ verdict'[v].missing = "none")
              /\ (/\ Untraceable(MergeOf[v])
                  /\ verdict'[v].missing = "none"
                  /\ verdict'[v].failed_checks \subseteq {"row_count"})
                    => (verdict'[v].exit = 0 /\ verdict'[v].warned > 0)]_vars

\* The raw ids of source db on rows with a non-empty canonical key that
\* have no mapping row tagged db.
UnmappedOriginals(raw, mapping, empty, db) ==
    {raw[r].old_id :
        r \in {x \in 1..Len(raw) :
                 /\ raw[x].source_db = db
                 /\ raw[x].key # empty
                 /\ ~isna(raw[x].old_id)
                 /\ ~HasEntry(mapping, db, raw[x].old_id)}}

\* The mapping check of a validator for each source.
MappingCheck == [db1 |-> "mapping_db1", db2 |-> "mapping_db2"]

\* C23: a validator that finds all its files reports a failed mapping check
\* for a source whenever some raw id of a row of that source with a non-empty
\* canonical key has no mapping row tagged with that source, whether or not
\* the id has a mapping row under the other source.
C23_UnmappedOriginalFails ==
    [][\A v \in Validators, db \in {"db1", "db2"} :
          (/\ verdict'[v] # verdict[v]
           /\ verdict'[v].missing = "none"
           /\ "output_files" \notin verdict'[v].failed_checks
           /\ UnmappedOriginals(RawRows(MergeOf[v]), MappingRows(MergeOf[v]),
                                EmptyKey(MergeOf[v]), db) # {})
            => MappingCheck[db] \in verdict'[v].failed_checks]_vars

\* C27: merge and validator agree: a validator that runs after the merge of
\* its family has written all its files, on the sources the merge read,
\* counts no failed check.
C27_ValidatorAcceptsMerge ==
    [][\A v \in Validators :
          (verdict'[v] # verdict[v] /\ Merged(MergeOf[v])) => verdict'[v].failed = 0]_vars

\* C24: after pauthors_merge and then papers_merge have run on the same
\* unchanged sources, every id in the authors_ids array of every canonical
\* paper is the author_id of some row of PAUTHORS.csv.
C24_ArrayIdsAreAuthors ==
    Merged("papers_merge") =>
        \A c \in 1..Len(fs["PAPERS.csv"]) :
            Range(ArrayIds(fs["PAPERS.csv"][c].authors_ids))
              \subseteq {fs["PAUTHORS.csv"][a].author_id : a \in 1..Len(fs["PAUTHORS.csv"])}

\* papers_merge has written a paper with an author.
C24_Witness ==
    /\ Merged("papers_merge")
    /\ \E c \in 1..Len(fs["PAPERS.csv"]) : ArrayIds(fs["PAPERS.csv"][c].authors_ids) # <<>>

\* The enriched PapersAuthors files pauthors_merge writes.
EnrichedPapersAuthors ==
    {"papers_authors_enriched_db1.csv", "papers_authors_enriched_db2.csv"}

\* C25: papers_merge writes no papers output (PAPERS table, paper id mapping,
\* papers metadata) unless both enriched PapersAuthors files exist; with
\* either absent a run of papers_merge has only reported and returned.
C25_PapersAfterPAuthors ==
    ~(EnrichedPapersAuthors \subseteq written) =>
        /\ PapersFiles \cap written = {}
        /\ status["papers_merge"] \in {"not run", "returned"}

\* papers_merge has returned while exactly one of the enriched files exists.
C25_Witness ==
    /\ status["papers_merge"] = "returned"
    /\ Cardinality(EnrichedPapersAuthors \cap written) = 1

\* Every enriched link row of source db that holds a canonical id holds the
\* id of a mapping row of db for the foreign key of the link.
OwnSourceIds(enriched, mapping, db, fk, new) ==
    \A i \in 1..Len(enriched) :
        isna(enriched[i][new])
        \/ \E m \in 1..Len(mapping) :
              /\ mapping[m].source_db = db
              /\ mapping[m].old_id = enriched[i][fk]
              /\ mapping[m].new_id = enriched[i][new]

\* Every enriched book-topic row of source db that holds a topic name holds
\* the name of a Topic row of db with the TopicID of the link.
OwnSourceTopics(enriched, topics) ==
    \A i \in 1..Len(enriched) :
        isna(enriched[i].TopicName)
        \/ \E r \in 1..Len(topics) :
              /\ py_str(topics[r].TopicID) = py_str(enriched[i].TopicID)
              /\ topics[r].Topic = enriched[i].TopicName

\* Every author of a canonical paper is on an enriched link row of the source
\* and PaperID of a member of the paper's group.
OwnSourceAuthors(kept, links, canon, papers) ==
    \A c \in 1..Len(papers) :
        Range(ArrayIds(papers[c].authors_ids)) \subseteq GroupAuthors(kept, links, canon[c].key)

\* C26: cross-source id collisions are isolated: a link row of source S is
\* resolved only through the mapping rows, Topic rows or author lookups of
\* source S, so it never receives the canonical id of an entity that only the
\* other source holds under the same original id.
C26_CollisionsIsolated ==
    /\ \A s \in {"book_authors_merge", "pauthors_merge"}, db \in {"db1", "db2"} :
          Merged(s) => OwnSourceIds(fs[EnrichedFile[s][db]], MappingRows(s), db,
                                    ForeignKey[s], NewId[s])
    /\ \A db \in {"db1", "db2"} :
          Merged("book_topic_merge") =>
              OwnSourceTopics(fs[EnrichedFile["book_topic_merge"][db]], Table(db, "Topic"))
    /\ Merged("papers_merge") =>
          OwnSourceAuthors(KeptRows("papers_merge"), EnrichedLinks, CanonRows("papers_merge"),
                           fs["PAPERS.csv"])

\* Both sources hold a link to the same original id, and the two enriched
\* links carry different canonical ids.
C26_Witness ==
    \E s \in {"book_authors_merge", "pauthors_merge"} :
        /\ Merged(s)
        /\ \E i \in 1..Len(fs[EnrichedFile[s]["db1"]]),
              j \in 1..Len(fs[EnrichedFile[s]["db2"]]) :
              /\ fs[EnrichedFile[s]["db1"]][i][ForeignKey[s]]
                   = fs[EnrichedFile[s]["db2"]][j][ForeignKey[s]]
              /\ fs[EnrichedFile[s]["db1"]][i][NewId[s]]
                   # fs[EnrichedFile[s]["db2"]][j][NewId[s]]

\* The core steps 1..n by name.
CoreNames(n) == {CORE_PIPELINE_STEPS[i].name : i \in 1..n}

\* Some entry of the core results is a failed step.
CoreFailed == \E i \in 1..Len(pipe.core_results) : ~pipe.core_results[i].success

\* C28: in a run that stops on errors the core results name the core steps in
\* order, a failed step is the last entry, and once a step has failed no
\* script beyond it was launched and no optional step was attempted; in
\* every run an optional step is attempted only after all four core steps
\* were run and succeeded.
C28_StopOnError ==
    pipe.phase # "idle" =>
        /\ ~pipe.continue_on_error =>
              /\ \A i \in 1..Len(pipe.core_results) :
                    /\ pipe.core_results[i].step = CORE_PIPELINE_STEPS[i].name
                    /\ ~pipe.core_results[i].success => i = Len(pipe.core_results)
              /\ CoreFailed =>
                    /\ pipe.phase \in {"summary", "exited"}
                    /\ Range(pipe.launched) \subseteq CoreNames(Len(pipe.core_results))
              /\ (pipe.phase # "core" /\ ~CoreFailed) =>
                    Len(pipe.core_results) = Len(CORE_PIPELINE_STEPS)
        /\ (pipe.phase = "optional" \/ pipe.optional_results # <<>>) =>
              /\ Len(pipe.core_results) = Len(CORE_PIPELINE_STEPS)
              /\ ~CoreFailed

\* A run that stops on errors has ended after its second core step exited
\* with a non-zero status, matching being requested.
C28_Witness ==
    /\ pipe.phase = "exited"
    /\ ~pipe.continue_on_error
    /\ ~pipe.skip_matching
    /\ Len(pipe.core_results) = 2
    /\ "required" \in DOMAIN pipe.core_results[2]
    /\ ~pipe.core_results[2].success
    /\ pipe.launched = <<"Clean CSV files", "Merge tables">>
    /\ pipe.optional_results = <<>>

\* Every core step was run and succeeded.
CoreSucceeded ==
    /\ Len(pipe.core_results) = Len(CORE_PIPELINE_STEPS)
    /\ ~CoreFailed

\* C29: a finished run of the pipeline has exit status 0 exactly when every
\* core step was run and succeeded, whatever became of the optional steps.
C29_ExitStatus ==
    pipe.phase = "exited" => (pipe.exit = 0 <=> CoreSucceeded)

\* C29 for the runs in which match_tables.py is present in scripts_dir.
C29_ExitStatusMatcherPresent ==
    (pipe.phase = "exited" /\ "match_tables.py" \in pipe.scripts)
        => (pipe.exit = 0 <=> CoreSucceeded)

\* The normalized rows of the table of source db, on the columns of the
\* merged file, a column the source lacks holding the empty string.
AlignedSourceRows(db) ==
    Range(align_frame(load_csv(flat[db]), flat.merged.cols).rows)

\* C30: after merge_table returned True, verify_table counts no missing row
\* for db1 and none for db2.
C30_NoRowLost ==
    (flat.phase = "run" /\ flat.ok) =>
        \A db \in {"db1", "db2"} : flat.missing_rows[db] <= 0

\* The frame merge_table writes holds every normalized row of both sources;
\* the rows are lost when the file is read again.
C30_RowsInWrittenFrame ==
    (flat.phase = "run" /\ flat.ok) =>
        \A db \in {"db1", "db2"} :
            flat[db].exists => AlignedSourceRows(db) \subseteq Range(flat.merged.rows)

====
